---- MODULE Spec2Model ----
(***************************************************************************)
(* Model of the BBombsBot moderation pipeline:                             *)
(*   src/src/models/ratelimiter.py  (RateLimiter, RateLimiterBucket,       *)
(*                                   MessageRateLimiter)                   *)
(*   src/src/models/automod.py      (AutoMod classifiers, moderate, check) *)
(*   src/src/models/safebrowsing.py (SafebrowsingClient)                   *)
(* Time is time.monotonic() in whole seconds.  The asyncio event loop is   *)
(* cooperative: exactly one task runs at a time and other tasks run only   *)
(* while it is suspended at an await that really suspends.                 *)
(***************************************************************************)
EXTENDS Integers, Sequences, FiniteSets, TLC

VARIABLES
    now,            \* time.monotonic(), in seconds
    rate_limiters,  \* bucket name -> (key -> RateLimiter)   RateLimiterBucket._rate_limiters
    message_queue,  \* bucket name -> (key -> deque of ids)  MessageRateLimiter._message_queue
    ready,          \* the queue tasks created and not yet started, in the loop's FIFO order
    target,         \* the bucket the direct API calls of SpecRL are made on
    traffic,        \* the message traffic the gateway delivers: "mixed" or "burst"
    strikes0,       \* the members table when the bot started
    lastCall,       \* the direct API call just made and what it returned or raised
    calls,          \* number of state-changing direct API calls made so far
    sent,           \* history: key -> ids passed to add_message on the target bucket
    tasks,          \* the listener tasks running AutoMod.check, one per message event
    cur,            \* the task the event loop is running now, 0 when the loop is idle
    nevents,        \* number of message events dispatched so far
    strikes,        \* the members table: user id -> strikes   (DatabaseMember)
    msg_cache,      \* app.cache messages: id -> content
    deleted,        \* ids of the messages deleted on the platform
    rate_log,       \* history: key -> what find_message_spam found for each message
    client,         \* the SafebrowsingClient: _cache, _queue, its queue task, history
    checks,         \* the calls of SafebrowsingClient.check
    link            \* the call of block_malicious_links made directly (SpecLinks)

rlvars == <<rate_limiters, message_queue, ready>>
envvars == <<target, traffic, strikes0>>
apivars == <<envvars, lastCall, calls, sent>>
pipevars == <<tasks, cur, nevents, strikes, msg_cache, deleted, rate_log>>
sbvars == <<client, checks>>
vars == <<now, rate_limiters, message_queue, ready, target, traffic, strikes0, lastCall,
          calls, sent, tasks, cur, nevents, strikes, msg_cache, deleted, rate_log,
          client, checks, link>>

----------------------------------------------------------------------------
(* Bounds of the model *)

MaxTime == 6
MaxCalls == 8
MaxTasks == 2
MaxEvents == 2
MaxBurst == 7
MaxChecks == 3
MaxUrls == 2
MaxStrikes == 5
MaxDelay == 1
MaxMessages == 5
MaxMatches == 2

\* number of calls that change the registry in SpecIso
MaxIsoCalls == 3

\* number of calls of moderate in SpecStrikes
MaxModerations == 3

----------------------------------------------------------------------------
(* Policies of the six module-level buckets, automod.py:21-26 *)

MESSAGE_SPAM_TIMESPAN == 5
MESSAGE_SPAM_COUNT == 5
DUPLICATE_SPAM_TIMESPAN == 10
DUPLICATE_SPAM_COUNT == 4
DUPLICATE_SPAM_QUEUE == 4
INVITE_SPAM_TIMESPAN == 30
INVITE_SPAM_COUNT == 2
LINK_SPAM_TIMESPAN == 30
LINK_SPAM_COUNT == 3
ATTACHMENT_SPAM_TIMESPAN == 30
ATTACHMENT_SPAM_COUNT == 2
MENTION_SPAM_TIMESPAN == 30
MENTION_SPAM_COUNT == 3
MENTION_SPAM_QUEUE == 2

BucketNames == {"MESSAGE", "DUPLICATE", "INVITE", "LINK", "ATTACHMENT", "MENTION"}

\* MessageRateLimiter.__init__: message_queue_size defaults to 0
Bucket(b) ==
    CASE b = "MESSAGE" ->
           [timespan |-> MESSAGE_SPAM_TIMESPAN, count |-> MESSAGE_SPAM_COUNT,
            message_queue_size |-> 0]
      [] b = "DUPLICATE" ->
           [timespan |-> DUPLICATE_SPAM_TIMESPAN, count |-> DUPLICATE_SPAM_COUNT,
            message_queue_size |-> DUPLICATE_SPAM_QUEUE]
      [] b = "INVITE" ->
           [timespan |-> INVITE_SPAM_TIMESPAN, count |-> INVITE_SPAM_COUNT,
            message_queue_size |-> 0]
      [] b = "LINK" ->
           [timespan |-> LINK_SPAM_TIMESPAN, count |-> LINK_SPAM_COUNT,
            message_queue_size |-> 0]
      [] b = "ATTACHMENT" ->
           [timespan |-> ATTACHMENT_SPAM_TIMESPAN, count |-> ATTACHMENT_SPAM_COUNT,
            message_queue_size |-> 0]
      [] b = "MENTION" ->
           [timespan |-> MENTION_SPAM_TIMESPAN, count |-> MENTION_SPAM_COUNT,
            message_queue_size |-> MENTION_SPAM_QUEUE]

----------------------------------------------------------------------------
(* Contexts and keys *)

\* a missing author (hikari.UNDEFINED / None) or guild_id (None)
None == -1

GuildIds == {1}

\* contexts the bucket API is handed directly: one with author and guild,
\* one without author, one without guild
Contexts ==
    {[author |-> 1, guild_id |-> 1],
     [author |-> None, guild_id |-> 1],
     [author |-> 1, guild_id |-> None]}

Digit(d) ==
    CASE d = 0 -> "0" [] d = 1 -> "1" [] d = 2 -> "2" [] d = 3 -> "3"
      [] d = 4 -> "4" [] d = 5 -> "5" [] d = 6 -> "6" [] d = 7 -> "7"
      [] d = 8 -> "8" [] d = 9 -> "9"

\* str(int): the decimal digits, as a sequence of characters
RECURSIVE DecStr(_)
DecStr(n) == IF n < 10 THEN <<Digit(n)>> ELSE DecStr(n \div 10) \o <<Digit(n % 10)>>

\* stands for _get_key raising ValueError
ValueError == <<"ValueError">>

\* a key that would be used if a context without author or guild were accepted
GetKeyDefault(ctx) ==
    (IF ctx.guild_id \in {None, 0} THEN <<"N">> ELSE DecStr(ctx.guild_id))
        \o <<"-">> \o (IF ctx.author = None THEN <<"N">> ELSE DecStr(ctx.author))

\* a key made of the two ids with nothing between them
GetKeyNoSeparator(ctx) ==
    IF ctx.author = None \/ ctx.guild_id = None \/ ctx.guild_id = 0
    THEN ValueError
    ELSE DecStr(ctx.guild_id) \o DecStr(ctx.author)

\* MessageRateLimiter._get_key
GetKey(ctx) ==
    IF ctx.author = None \/ ctx.guild_id = None \/ ctx.guild_id = 0
    THEN ValueError
    ELSE DecStr(ctx.guild_id) \o <<"-">> \o DecStr(ctx.author)

----------------------------------------------------------------------------
(* RateLimiter *)

Request == "Request"

NoTask == [st |-> "None", until |-> 0]

\* a limiter created with the quota itself, without the extra unit
GetInstanceNoSeed(b, t) ==
    [reset_at |-> t + Bucket(b).timespan,
     remaining_requests |-> Bucket(b).count,
     request_queue |-> <<>>,
     queue_task |-> [st |-> "None", until |-> 0],
     fresh |-> TRUE,
     consumed |-> 0]

\* RateLimiter.get_instance.  Two history fields are kept beside the code's:
\* fresh (no reset since creation) and consumed (requests taken off the queue
\* since creation or the last reset).
GetInstance(b, t) ==
    [reset_at |-> t + Bucket(b).timespan,
     remaining_requests |-> Bucket(b).count + 1,
     request_queue |-> <<>>,
     queue_task |-> NoTask,
     fresh |-> TRUE,
     consumed |-> 0]

\* a reset that seeds the limiter as get_instance does
ResetLimiterSeeded(b, rl, t) ==
    [rl EXCEPT !.reset_at = t + Bucket(b).timespan,
               !.remaining_requests = Bucket(b).count + 1,
               !.fresh = FALSE,
               !.consumed = 0]

\* RateLimiter.reset
ResetLimiter(b, rl, t) ==
    [rl EXCEPT !.reset_at = t + Bucket(b).timespan,
               !.remaining_requests = Bucket(b).count,
               !.fresh = FALSE,
               !.consumed = 0]

\* the while loop of RateLimiter._run_queue, then queue_task = None
RECURSIVE Drain(_)
Drain(rl) ==
    IF rl.remaining_requests > 0 /\ rl.request_queue # <<>>
    THEN Drain([rl EXCEPT !.remaining_requests = @ - 1,
                          !.request_queue = Tail(@),
                          !.consumed = @ + 1])
    ELSE [rl EXCEPT !.queue_task = NoTask]

\* a start that creates a task whether or not one is active
StartAlways(rl) == [rl EXCEPT !.queue_task = [st |-> "ready", until |-> 0]]

\* RateLimiter.start
Start(rl) ==
    IF rl.queue_task.st = "None"
    THEN [rl EXCEPT !.queue_task = [st |-> "ready", until |-> 0]]
    ELSE rl

----------------------------------------------------------------------------
(* RateLimiterBucket / MessageRateLimiter, as functions of the registry *)

Put(f, k, v) == [x \in DOMAIN f \cup {k} |-> IF x = k THEN v ELSE f[x]]

\* RateLimiterBucket._get_ratelimiter: dict.setdefault(key, get_instance(self))
GetRatelimiter(rls, b, key, t) ==
    IF key \in DOMAIN rls[b] THEN rls
    ELSE [rls EXCEPT ![b] = Put(@, key, GetInstance(b, t))]

\* RateLimiterBucket.add
BucketAdd(rls, b, key, t) ==
    LET r1 == GetRatelimiter(rls, b, key, t)
        rl == r1[b][key]
    IN  [r1 EXCEPT ![b][key] =
            Start([rl EXCEPT !.request_queue = Append(@, Request)])]

\* RateLimiterBucket.reset
BucketReset(rls, b, key, t) ==
    LET r1 == GetRatelimiter(rls, b, key, t)
    IN  [r1 EXCEPT ![b][key] = ResetLimiter(b, @, t)]

\* is_rate_limited without the test of the window
IsRateLimitedNoWindow(rls, b, key, t) ==
    (IF key \in DOMAIN rls[b] THEN rls[b][key].remaining_requests
     ELSE Bucket(b).count + 1) <= 0

\* the value RateLimiterBucket.is_rate_limited returns
IsRateLimited(rls, b, key, t) ==
    LET rl == GetRatelimiter(rls, b, key, t)[b][key]
    IN  IF rl.reset_at <= t THEN FALSE
        ELSE IF rl.remaining_requests <= 0 THEN TRUE
        ELSE FALSE

\* a bounded deque that refuses the new item when full
DequeAppendKeepOld(q, x, n) == IF Len(q) >= n THEN q ELSE Append(q, x)

\* deque(maxlen=n).append
DequeAppend(q, x, n) ==
    LET s == Append(q, x)
    IN  IF Len(s) > n THEN SubSeq(s, Len(s) - n + 1, Len(s)) ELSE s

\* the _message_queue part of MessageRateLimiter.add_message
TrackMessage(mq, b, key, id) ==
    IF Bucket(b).message_queue_size > 0
    THEN [mq EXCEPT ![b] =
            Put(@, key, DequeAppend(IF key \in DOMAIN mq[b] THEN mq[b][key] ELSE <<>>,
                                    id, Bucket(b).message_queue_size))]
    ELSE mq

\* MessageRateLimiter.get_messages: the list, or None on KeyError
NoList == <<None>>
GetMessages(mq, b, key) ==
    IF key \in DOMAIN mq[b] THEN mq[b][key] ELSE NoList

----------------------------------------------------------------------------
(* The queue task of one limiter, run by the event loop *)

NoCall == [op |-> "none", ctx |-> [author |-> None, guild_id |-> None],
           raised |-> FALSE, result |-> <<>>]

\* _run_queue consuming before it resets a stale window
RunQueueBodyConsumeFirst(b, rl, t) ==
    IF rl.remaining_requests <= 0 /\ rl.reset_at > t
    THEN [rl EXCEPT !.queue_task = [st |-> "sleeping", until |-> rl.reset_at]]
    ELSE IF rl.reset_at <= t
    THEN [ResetLimiter(b, Drain(rl), t) EXCEPT !.queue_task = [st |-> "None", until |-> 0]]
    ELSE Drain(rl)

\* RateLimiter._run_queue from its start to its first suspension or its end
RunQueueBody(b, rl, t) ==
    IF rl.remaining_requests <= 0 /\ rl.reset_at > t
    THEN [rl EXCEPT !.queue_task = [st |-> "sleeping", until |-> rl.reset_at]]
    ELSE IF rl.reset_at <= t
    THEN Drain(ResetLimiter(b, rl, t))
    ELSE Drain(rl)

\* RateLimiter._run_queue after asyncio.sleep returns
WakeQueueBody(b, rl, t) == Drain(ResetLimiter(b, rl, t))

\* asyncio.create_task: the tasks the call created (at most one: a call
\* touches one limiter) join the loop's queue of ready tasks
Schedule(rdy, old, new) ==
    LET created == {x \in BucketNames \X UNION {DOMAIN new[b] : b \in BucketNames} :
                       /\ x[2] \in DOMAIN new[x[1]]
                       /\ new[x[1]][x[2]].queue_task.st = "ready"
                       /\ \/ x[2] \notin DOMAIN old[x[1]]
                          \/ old[x[1]][x[2]].queue_task.st # "ready"}
    IN  IF created = {} THEN rdy ELSE Append(rdy, CHOOSE x \in created : TRUE)

\* the loop starts the queue task that has waited longest
RunQueue(b, key) ==
    /\ cur = 0
    /\ ready # <<>>
    /\ Head(ready) = <<b, key>>
    /\ rate_limiters[b][key].queue_task.st = "ready"
    /\ rate_limiters' = [rate_limiters EXCEPT ![b][key] = RunQueueBody(b, @, now)]
    /\ ready' = Tail(ready)
    /\ lastCall' = NoCall
    /\ UNCHANGED <<now, message_queue, envvars, calls, sent, pipevars, sbvars, link>>

WakeQueue(b, key) ==
    /\ cur = 0
    /\ key \in DOMAIN rate_limiters[b]
    /\ rate_limiters[b][key].queue_task.st = "sleeping"
    /\ rate_limiters[b][key].queue_task.until <= now
    /\ rate_limiters' = [rate_limiters EXCEPT ![b][key] = WakeQueueBody(b, @, now)]
    /\ lastCall' = NoCall
    /\ UNCHANGED <<now, message_queue, ready, envvars, calls, sent, pipevars, sbvars, link>>

\* a second passes while the loop is idle
Tick(max) ==
    /\ cur = 0
    /\ now < max
    /\ now' = now + 1
    /\ lastCall' = NoCall
    /\ UNCHANGED <<rlvars, envvars, calls, sent, pipevars, sbvars, link>>

TickRL == Tick(MaxTime)

----------------------------------------------------------------------------
(* Messages.  A message carries its text and what the regular expressions of *)
(* static/re.py find in it; the allow and deny lists are fixed files, so a   *)
(* URL's standing in them is a property of the message.                      *)

UserIds == {1, 2}

TextA == <<"a", "a", "a", "a", "a">>
TextB == <<"b", "b", "b", "b", "b">>

\* text: message.content ("" or None when empty)
\* invite: "raw" when INVITE_REGEX matches the content as written, "lowered"
\*         when it matches only content.lower(), "none" otherwise
\* url: "none" when URL_REGEX finds nothing in content.lower(); otherwise the
\*      standing of the URL: "white" (allow list), "black" (deny list), "unknown"
\* fake: FAKE_URL_REGEX matches the content
\* attachments: len(message.attachments)
\* bots, selfs, users: user_mentions that are bots, the author, other users
Plain(text) ==
    [text |-> text, invite |-> "none", url |-> "none", fake |-> FALSE,
     attachments |-> 0, bots |-> 0, selfs |-> 0, users |-> 0]

InviteFake == [Plain(TextB) EXCEPT !.invite = "raw", !.fake = TRUE]
Unknown == [Plain(TextB) EXCEPT !.url = "unknown"]
Crowd == [Plain(<<>>) EXCEPT !.attachments = 1, !.users = 10]

\* a message event: kind is the event class, member is what
\* app.cache.get_member gives for the author
Event(kind, author, member, content) ==
    [kind |-> kind, author |-> author, guild_id |-> 1, member |-> member,
     content |-> content]

\* the message events the gateway delivers
Events ==
    {Event("create", 1, "member", Plain(TextA)),
     Event("create", 1, "member", InviteFake),
     Event("create", 2, "member", Unknown),
     Event("create", 2, "member", Crowd),
     Event("update", 1, "member", InviteFake),
     Event("update", 2, "member", Crowd),
     Event("create", 1, "bot", Plain(TextA))}

\* a burst: one member sends up to MaxBurst plain messages, starting with no
\* limiter for the member
BurstEvents ==
    {Event("create", 1, "member", Plain(TextA)),
     Event("create", 1, "member", Plain(TextB))}

\* one member talks and mentions: up to MaxMessages messages with text only,
\* with a mention of another user, or with mentions of ten bots and of the
\* author
Mention == [Plain(TextA) EXCEPT !.users = 1]
BotsAndSelf == [Plain(TextA) EXCEPT !.bots = 10, !.selfs = 1]
TalkEvents ==
    {Event("create", 1, "member", Plain(TextA)),
     Event("create", 1, "member", Plain(TextB)),
     Event("create", 1, "member", Mention),
     Event("create", 1, "member", BotsAndSelf)}

\* mixed traffic: up to MaxEvents events of any kind
Traffic ==
    CASE traffic = "burst" -> BurstEvents
      [] traffic = "talk" -> TalkEvents
      [] OTHER -> Events

\* the number of events delivered in a run
MaxTraffic ==
    CASE traffic = "burst" -> MaxBurst
      [] traffic = "talk" -> MaxMessages
      [] OTHER -> MaxEvents

IsSpace(c) == c = " "

\* str.strip
RECURSIVE Strip(_)
Strip(s) ==
    IF s = <<>> THEN s
    ELSE IF IsSpace(Head(s)) THEN Strip(Tail(s))
    ELSE IF IsSpace(s[Len(s)]) THEN Strip(SubSeq(s, 1, Len(s) - 1))
    ELSE s

Min3(a, b, c) == IF a <= b /\ a <= c THEN a ELSE IF b <= c THEN b ELSE c

\* Levenshtein.distance
Distance(a, b) ==
    LET d[i \in 0..Len(a), j \in 0..Len(b)] ==
            IF i = 0 THEN j
            ELSE IF j = 0 THEN i
            ELSE Min3(d[i - 1, j] + 1, d[i, j - 1] + 1,
                      d[i - 1, j - 1] + (IF a[i] = b[j] THEN 0 ELSE 1))
    IN  d[Len(a), Len(b)]

----------------------------------------------------------------------------
(* URL_REGEX, domain_in_list and AutoMod.block_malicious_links, called on    *)
(* the URLs URL_REGEX finds in one message.  A URL is the sequence of its    *)
(* characters.                                                               *)

Http == <<"h", "t", "t", "p">>
Https == <<"h", "t", "t", "p", "s", ":", "/", "/">>

\* the characters of the class [\w.,@?^=%&:\/~+#-] that are not of [\w_-];
\* every other character of the model's URLs is of [\w_-]
Punct == {".", ",", "@", "?", "^", "=", "%", "&", ":", "/", "~", "+", "#"}
WordChar(c) == c \notin Punct

\* s matches [\w_-]+(?:(?:\.[\w_-]+)+)
IsDomain(s) ==
    /\ Len(s) >= 3
    /\ s[1] # "."
    /\ s[Len(s)] # "."
    /\ \E i \in 1..Len(s) : s[i] = "."
    /\ \A i \in 1..Len(s) :
          /\ WordChar(s[i]) \/ s[i] = "."
          /\ (s[i] = "." /\ i < Len(s)) => s[i + 1] # "."

\* s matches [\w.,@?^=%&:\/~+#-]*[\w@?^=%&\/~+#-]
IsTail(s) ==
    /\ s # <<>>
    /\ \A i \in 1..Len(s) : WordChar(s[i]) \/ s[i] \in Punct
    /\ s[Len(s)] \notin {".", ",", ":"}

\* the ends of group 2 for which scheme, group 2 and group 3 make up all of
\* url
Splits(scheme, url) ==
    IF Len(url) > Len(scheme) /\ SubSeq(url, 1, Len(scheme)) = scheme
    THEN {k \in (Len(scheme) + 1)..(Len(url) - 1) :
             /\ IsDomain(SubSeq(url, Len(scheme) + 1, k))
             /\ IsTail(SubSeq(url, k + 1, Len(url)))}
    ELSE {}

Longest(S) == CHOOSE k \in S : \A j \in S : j <= k

\* URL_REGEX.fullmatch(url) is not None
UrlMatches(url) == Splits(Http, url) # {} \/ Splits(Https, url) # {}

\* the groups of URL_REGEX.fullmatch(url): the alternative http is tried
\* before https://, and the quantifiers of group 2 are greedy
UrlGroups(url) ==
    LET scheme == IF Splits(Http, url) # {} THEN Http ELSE Https
        k == Longest(Splits(scheme, url))
    IN  [g1 |-> scheme, g2 |-> SubSeq(url, Len(scheme) + 1, k),
         g3 |-> SubSeq(url, k + 1, Len(url))]

\* helpers.domain_in_list; list is the set of the stripped lines of the file
DomainInList(url, list) ==
    /\ UrlMatches(url)
    /\ LET match == UrlGroups(url)
           domain == IF match.g3[1] # "/" THEN match.g2 \o match.g3 ELSE match.g2
       IN  domain \in list

\* the domains of domain_whitelist.txt and of domain_blacklist.txt
OkDomain == <<"o", "k", ".", "i", "o">>
NoDomain == <<"n", "o", ".", "i", "o">>
MeDomain == <<"m", "e", ".", "i", "o">>
domain_whitelist == {OkDomain}
domain_blacklist == {NoDomain}

\* URLs that URL_REGEX finds in a message: of the allowed domain alone, with
\* a path, with a path that names the denied domain, and with a query; of
\* the denied domain and of a domain on neither list
LinkUrls ==
    {Https \o OkDomain,
     Https \o OkDomain \o <<"/", "x">>,
     Https \o OkDomain \o <<"/">> \o NoDomain,
     Https \o OkDomain \o <<"?", "x">>,
     Https \o NoDomain \o <<"/", "x">>,
     Https \o MeDomain \o <<"/", "x">>}

\* matches = URL_REGEX.findall(message.content.lower())
MatchLists == UNION {[1..n -> LinkUrls] : n \in 0..MaxMatches}

\* st: "idle" (not called); "whitelist", "blacklist" (suspended in
\*     domain_in_list for matches[i], refined_matches[i]); "check" (suspended
\*     in safebrowsing_client.check(urls)); "moderate" (moderate was called
\*     with BLOCKED); "passed" (returned True)
IdleLink == [st |-> "idle", matches |-> <<>>, i |-> 0, refined_matches |-> <<>>,
             urls |-> <<>>]

\* await self.block_malicious_links(message), to its first await
CallBlockMaliciousLinks(matches) ==
    /\ link.st = "idle"
    /\ link' = IF matches = <<>> THEN [link EXCEPT !.st = "passed"]
               ELSE [link EXCEPT !.st = "whitelist", !.matches = matches, !.i = 1]
    /\ UNCHANGED <<now, rlvars, apivars, pipevars, sbvars>>

\* domain_in_list(match, whitelist) returned, for one match of the first loop
ReadWhitelist ==
    /\ link.st = "whitelist"
    /\ LET match == link.matches[link.i]
           refined == IF DomainInList(match, domain_whitelist)
                      THEN link.refined_matches
                      ELSE Append(link.refined_matches, match)
       IN  link' = IF link.i < Len(link.matches)
                   THEN [link EXCEPT !.refined_matches = refined, !.i = @ + 1]
                   ELSE IF refined = <<>>
                   THEN [link EXCEPT !.st = "passed"]
                   ELSE [link EXCEPT !.refined_matches = refined, !.st = "blacklist",
                                     !.i = 1]
    /\ UNCHANGED <<now, rlvars, apivars, pipevars, sbvars>>

\* domain_in_list(match, blacklist) returned, for one match of the second loop
ReadBlacklist ==
    /\ link.st = "blacklist"
    /\ link' = IF DomainInList(link.refined_matches[link.i], domain_blacklist)
               THEN [link EXCEPT !.st = "moderate"]
               ELSE IF link.i < Len(link.refined_matches)
               THEN [link EXCEPT !.i = @ + 1]
               ELSE [link EXCEPT !.st = "check", !.urls = link.refined_matches]
    /\ UNCHANGED <<now, rlvars, apivars, pipevars, sbvars>>

\* safebrowsing_client.check(urls) returned: as in LinkLookedUp, every result
\* it returns is unsafe
CheckReturned ==
    /\ link.st = "check"
    /\ link' = [link EXCEPT !.st = "moderate"]
    /\ UNCHANGED <<now, rlvars, apivars, pipevars, sbvars>>

----------------------------------------------------------------------------
(* Listener tasks (extensions/moderation.py run_automod -> AutoMod.check)    *)

Tasks == 1..MaxTasks

NoEvent ==
    [kind |-> "none", author |-> None, guild_id |-> None, member |-> "uncached",
     content |-> Plain(<<>>), id |-> 0]

\* st: "idle"; "running" (on the loop, between classifiers); "await_..."
\*     (suspended at that await); "done" (check returned); "failed" (an
\*     exception left check)
\* idx: position in the tuple of classifiers being built by check
\* started, finished: history of the classifiers begun and returned
\* offence, queue, reason, db_strikes: arguments and locals of the moderate
\*     call; fetched: the strikes DatabaseMember.fetch returned; duration:
\*     the end of the timeout computed; content: the notice last sent
\* moderated, increments, notices, timeouts: history of what moderate did
\*     for this event
NoNotice == [kind |-> "none", reason |-> "none", expiration |-> None]

IdleTask ==
    [st |-> "idle", ev |-> NoEvent, idx |-> 0, started |-> <<>>, finished |-> <<>>,
     offence |-> "none", queue |-> NoList, reason |-> "none", db_strikes |-> 0,
     fetched |-> 0, duration |-> None, content |-> NoNotice,
     moderated |-> 0, increments |-> 0, notices |-> 0, timeouts |-> 0]

\* the URLs looked up, and those of them the Safe Browsing service lists as
\* threats (its answer for a URL is a property of the URL)
Urls == {"u1", "u2", "u3"}
Threats == {"u1", "u2"}

CheckIds == 1..MaxChecks

\* st: "idle" (not called); "waiting" (suspended in self._event.wait());
\*     "woken" (the event was set, the call is about to test the cache again);
\*     "returned"
\* urls: the argument; result: the list returned
\* puts, waited: history of the call (URLs it put on the queue, whether it
\*     has waited on the event)
IdleCheck == [st |-> "idle", urls |-> <<>>, result |-> <<>>, puts |-> 0, waited |-> FALSE]

\* SafebrowsingClient.__init__, the queue task having reached its first
\* self._queue.get().
\* task: "get" (suspended in self._queue.get()), "request" (suspended in
\*     _request_api), "dead" (an exception ended it), "cancelled"
\* batch: the URLs of the request in flight
\* requests, answered, failed, closed: history (the batches sent, the batches
\*     answered with status 200, whether a request failed, whether close ran)
InitClient ==
    /\ client = [cache |-> <<>>, queue |-> <<>>, task |-> "get", batch |-> <<>>,
                 requests |-> <<>>, answered |-> <<>>, failed |-> FALSE,
                 closed |-> FALSE]
    /\ checks = [c \in CheckIds |-> IdleCheck]

InitPipeline ==
    /\ tasks = [t \in Tasks |-> IdleTask]
    /\ cur = 0
    /\ nevents = 0
    /\ strikes = [u \in UserIds |-> 0]
    /\ strikes0 = strikes
    /\ InitClient
    /\ msg_cache = <<>>
    /\ deleted = {}
    /\ rate_log = <<>>
    /\ link = IdleLink

----------------------------------------------------------------------------
(* Direct calls of the bucket API (specification SpecRL).  The calls that    *)
(* change the registry are counted, and at most MaxCalls of them are made.   *)

Keys == {GetKey(c) : c \in Contexts} \ {ValueError}

\* the buckets called directly: one of each kind of policy (no tracked ids and
\* a window that lapses within MaxTime, tracked ids with a long window)
Targets == {"MESSAGE", "DUPLICATE", "MENTION"}

\* the id of the n-th message of an author: distinct for distinct messages
MessageId(author, n) == 10 * author + n

Raised(op, ctx) ==
    /\ lastCall' = [op |-> op, ctx |-> ctx, raised |-> TRUE, result |-> <<>>]
    /\ UNCHANGED <<now, rlvars, envvars, calls, sent, pipevars, sbvars, link>>

\* bucket.add_message(ctx), ctx being a new message of ctx.author; bucket.add
\* is called through it, as everywhere in automod.py
CallAddMessage(ctx) ==
    LET key == GetKey(ctx) IN
    IF key = ValueError THEN Raised("add_message", ctx)
    ELSE LET old == IF key \in DOMAIN sent THEN sent[key] ELSE <<>>
             id == MessageId(ctx.author, Len(old) + 1)
         IN  /\ calls < MaxCalls
             /\ rate_limiters' = BucketAdd(rate_limiters, target, key, now)
             /\ ready' = Schedule(ready, rate_limiters, rate_limiters')
             /\ message_queue' = TrackMessage(message_queue, target, key, id)
             /\ sent' = Put(sent, key, Append(old, id))
             /\ lastCall' = [op |-> "add_message", ctx |-> ctx, raised |-> FALSE, result |-> <<>>]
             /\ calls' = calls + 1
             /\ UNCHANGED <<now, envvars, pipevars, sbvars, link>>

\* bucket.is_rate_limited(ctx)
CallIsRateLimited(ctx) ==
    LET key == GetKey(ctx) IN
    IF key = ValueError THEN Raised("is_rate_limited", ctx)
    ELSE /\ key \notin DOMAIN rate_limiters[target] => calls < MaxCalls
         /\ rate_limiters' = GetRatelimiter(rate_limiters, target, key, now)
         /\ lastCall' = [op |-> "is_rate_limited", ctx |-> ctx, raised |-> FALSE,
                         result |-> <<IsRateLimited(rate_limiters, target, key, now)>>]
         /\ calls' = IF key \in DOMAIN rate_limiters[target] THEN calls ELSE calls + 1
         /\ UNCHANGED <<now, message_queue, ready, envvars, sent, pipevars, sbvars, link>>

\* bucket.reset(ctx)
CallReset(ctx) ==
    LET key == GetKey(ctx) IN
    IF key = ValueError THEN Raised("reset", ctx)
    ELSE /\ calls < MaxCalls
         /\ rate_limiters' = BucketReset(rate_limiters, target, key, now)
         /\ lastCall' = [op |-> "reset", ctx |-> ctx, raised |-> FALSE, result |-> <<>>]
         /\ calls' = calls + 1
         /\ UNCHANGED <<now, message_queue, ready, envvars, sent, pipevars, sbvars, link>>

\* bucket.get_messages(ctx)
CallGetMessages(ctx) ==
    LET key == GetKey(ctx) IN
    IF key = ValueError THEN Raised("get_messages", ctx)
    ELSE /\ lastCall' = [op |-> "get_messages", ctx |-> ctx, raised |-> FALSE,
                         result |-> GetMessages(message_queue, target, key)]
         /\ UNCHANGED <<now, rlvars, envvars, calls, sent, pipevars, sbvars, link>>

InitRL ==
    /\ now = 0
    /\ rate_limiters = [b \in BucketNames |-> <<>>]
    /\ message_queue = [b \in BucketNames |-> <<>>]
    /\ ready = <<>>
    /\ target \in Targets
    /\ traffic = "mixed"
    /\ lastCall = NoCall
    /\ calls = 0
    /\ sent = <<>>
    /\ InitPipeline

NextRL ==
    \/ \E ctx \in Contexts : CallAddMessage(ctx)
    \/ \E ctx \in Contexts : CallIsRateLimited(ctx)
    \/ \E ctx \in Contexts : CallReset(ctx)
    \/ \E ctx \in Contexts : CallGetMessages(ctx)
    \/ \E key \in Keys : RunQueue(target, key)
    \/ \E key \in Keys : WakeQueue(target, key)
    \/ TickRL

SpecRL == InitRL /\ [][NextRL]_vars

----------------------------------------------------------------------------
(* Direct calls of one bucket after a burst (specification SpecPending): at  *)
(* time 0 a key has made the count + 1 records that use up its first window  *)
(* and up to count more, the queue task having run after the first           *)
(* count + 1 and again after the rest.  calls counts the calls made after    *)
(* the burst.                                                                *)

BurstKey == GetKey([author |-> 1, guild_id |-> 1])

\* n calls of bucket.add for key at time t
RECURSIVE AddTimes(_, _, _, _, _)
AddTimes(rls, b, key, n, t) ==
    IF n = 0 THEN rls ELSE AddTimes(BucketAdd(rls, b, key, t), b, key, n - 1, t)

\* the registry after the burst with pending records left over
AfterBurst(b, pending, t) ==
    LET empty == [x \in BucketNames |-> <<>>]
        first == AddTimes(empty, b, BurstKey, Bucket(b).count + 1, t)
        used == [first EXCEPT ![b][BurstKey] = RunQueueBody(b, @, t)]
        more == AddTimes(used, b, BurstKey, pending, t)
    IN  IF pending = 0 THEN used
        ELSE [more EXCEPT ![b][BurstKey] = RunQueueBody(b, @, t)]

InitPending ==
    /\ now = 0
    /\ target = "MESSAGE"
    /\ \E pending \in 0..Bucket(target).count :
          /\ rate_limiters = AfterBurst(target, pending, 0)
          /\ sent = Put(<<>>, BurstKey,
                        [i \in 1..(Bucket(target).count + 1 + pending) |-> MessageId(1, i)])
    /\ message_queue = [b \in BucketNames |-> <<>>]
    /\ ready = <<>>
    /\ traffic = "mixed"
    /\ lastCall = NoCall
    /\ calls = 0
    /\ InitPipeline

NextPending ==
    \/ \E ctx \in Contexts : CallAddMessage(ctx)
    \/ \E ctx \in Contexts : CallIsRateLimited(ctx)
    \/ \E key \in Keys : RunQueue(target, key)
    \/ \E key \in Keys : WakeQueue(target, key)
    \/ TickRL

SpecPending == InitPending /\ [][NextPending]_vars

----------------------------------------------------------------------------
(* Direct calls of several buckets for several members (specification        *)
(* SpecIso).  The caller changes the bucket it calls between the calls;      *)
(* time does not pass.                                                       *)

\* (guild, author) pairs whose ids share their digits
IsoContexts ==
    {[author |-> 21, guild_id |-> 1],
     [author |-> 1, guild_id |-> 12],
     [author |-> 1, guild_id |-> 1]}

IsoKeys == {GetKey(c) : c \in IsoContexts}

\* the next calls are made on bucket b
Retarget(b) ==
    /\ cur = 0
    /\ b # target
    /\ target' = b
    /\ lastCall' = NoCall
    /\ UNCHANGED <<now, rlvars, traffic, strikes0, calls, sent, pipevars, sbvars, link>>

InitIso == InitRL

NextIso ==
    \/ \E ctx \in IsoContexts : calls < MaxIsoCalls /\ CallAddMessage(ctx)
    \/ \E ctx \in IsoContexts : calls < MaxIsoCalls /\ CallIsRateLimited(ctx)
    \/ \E ctx \in IsoContexts : calls < MaxIsoCalls /\ CallReset(ctx)
    \/ \E b \in Targets : Retarget(b)
    \/ \E b \in Targets, key \in IsoKeys : RunQueue(b, key)

SpecIso == InitIso /\ [][NextIso]_vars

----------------------------------------------------------------------------
(* The classifiers of AutoMod, each up to its first await that suspends.     *)
(* A classifier gives the registry it leaves and one of: "pass" (it returns  *)
(* True), "moderate" (it calls moderate with offence and queue), "io" (it    *)
(* waits for the list files).                                                *)

Pass(rls, mq) ==
    [verdict |-> "pass", rls |-> rls, mq |-> mq, offence |-> "none", queue |-> NoList]

Moderate(rls, mq, offence, queue) ==
    [verdict |-> "moderate", rls |-> rls, mq |-> mq, offence |-> offence, queue |-> queue]

\* MessageRateLimiter.add_message
AddMessage(rls, mq, b, msg, t) ==
    [rls |-> BucketAdd(rls, b, GetKey(msg), t),
     mq |-> TrackMessage(mq, b, GetKey(msg), msg.id)]

\* "if <recorded>: bucket.add_message(message)" followed by
\* "if bucket.is_rate_limited(message): moderate(SPAM, queue)"
RecordThenLimit(b, recorded, msg, rls, mq, t) ==
    LET a == IF recorded THEN AddMessage(rls, mq, b, msg, t)
             ELSE [rls |-> rls, mq |-> mq]
        r2 == GetRatelimiter(a.rls, b, GetKey(msg), t)
    IN  IF IsRateLimited(a.rls, b, GetKey(msg), t)
        THEN Moderate(r2, a.mq, "SPAM", GetMessages(a.mq, b, GetKey(msg)))
        ELSE Pass(r2, a.mq)

\* AutoMod.find_message_spam
FindMessageSpam(msg, rls, mq, t) == RecordThenLimit("MESSAGE", TRUE, msg, rls, mq, t)

\* AutoMod.find_duplicate_spam
FindDuplicateSpam(msg, rls, mq, cache, t) ==
    LET key == GetKey(msg)
        queue == GetMessages(mq, "DUPLICATE", key)
        a == AddMessage(rls, mq, "DUPLICATE", msg, t)
    IN  IF msg.content.text = <<>> THEN Pass(rls, mq)
        ELSE IF queue = NoList THEN Pass(a.rls, a.mq)
        ELSE IF /\ queue[Len(queue)] \in DOMAIN cache
                /\ Distance(Strip(cache[queue[Len(queue)]]), Strip(msg.content.text)) < 5
        THEN IF IsRateLimited(a.rls, "DUPLICATE", key, t)
             THEN Moderate(a.rls, a.mq, "SPAM", GetMessages(a.mq, "DUPLICATE", key))
             ELSE Pass(a.rls, a.mq)
        ELSE Pass(rls, mq)

\* AutoMod.find_invite_spam
FindInviteSpam(msg, rls, mq, t) ==
    RecordThenLimit("INVITE",
                    msg.content.text # <<>> /\ msg.content.invite \in {"raw", "lowered"},
                    msg, rls, mq, t)

\* AutoMod.find_link_spam
FindLinkSpam(msg, rls, mq, t) ==
    RecordThenLimit("LINK", msg.content.text # <<>> /\ msg.content.url # "none",
                    msg, rls, mq, t)

\* AutoMod.find_attach_spam
FindAttachSpam(msg, rls, mq, t) ==
    RecordThenLimit("ATTACHMENT", msg.content.attachments > 0, msg, rls, mq, t)

\* find_mention_spam recording every message that mentions somebody
FindMentionSpamAnyMention(msg, rls, mq, t) ==
    LET c == msg.content
    IN  RecordThenLimit("MENTION", c.bots + c.selfs + c.users > 0, msg, rls, mq, t)

\* AutoMod.find_mention_spam
FindMentionSpam(msg, rls, mq, t) ==
    LET c == msg.content
        mentions == c.bots + c.selfs + c.users
    IN  IF mentions > 0 /\ (c.bots > 0 \/ c.selfs > 0) THEN Pass(rls, mq)
        ELSE RecordThenLimit("MENTION", mentions > 0, msg, rls, mq, t)

\* AutoMod.block_malicious_links, to its first await of domain_in_list
BlockMaliciousLinks(msg, rls, mq) ==
    IF msg.content.text = <<>> \/ msg.content.url = "none" THEN Pass(rls, mq)
    ELSE [Pass(rls, mq) EXCEPT !.verdict = "io"]

BLOCK_INVITES == TRUE
BLOCK_FAKE_URL == TRUE
MENTION_FILTER_LIMIT == 9

\* AutoMod.block_invites
BlockInvites(msg, rls, mq) ==
    IF BLOCK_INVITES /\ msg.content.text # <<>> /\ msg.content.invite = "raw"
    THEN Moderate(rls, mq, "BLOCKED", NoList)
    ELSE Pass(rls, mq)

\* AutoMod.block_fake_links
BlockFakeLinks(msg, rls, mq) ==
    IF BLOCK_FAKE_URL /\ msg.content.text # <<>> /\ msg.content.fake
    THEN Moderate(rls, mq, "BLOCKED", NoList)
    ELSE Pass(rls, mq)

\* AutoMod.limit_mentions
LimitMentions(msg, rls, mq) ==
    LET c == msg.content
    IN  IF c.bots + c.selfs + c.users > 0 /\ c.users > MENTION_FILTER_LIMIT
        THEN Moderate(rls, mq, "BLOCKED", NoList)
        ELSE Pass(rls, mq)

Classify(name, msg, rls, mq, cache, t) ==
    CASE name = "find_message_spam" -> FindMessageSpam(msg, rls, mq, t)
      [] name = "find_duplicate_spam" -> FindDuplicateSpam(msg, rls, mq, cache, t)
      [] name = "find_invite_spam" -> FindInviteSpam(msg, rls, mq, t)
      [] name = "find_link_spam" -> FindLinkSpam(msg, rls, mq, t)
      [] name = "find_attach_spam" -> FindAttachSpam(msg, rls, mq, t)
      [] name = "find_mention_spam" -> FindMentionSpam(msg, rls, mq, t)
      [] name = "block_malicious_links" -> BlockMaliciousLinks(msg, rls, mq)
      [] name = "block_invites" -> BlockInvites(msg, rls, mq)
      [] name = "block_fake_links" -> BlockFakeLinks(msg, rls, mq)
      [] name = "limit_mentions" -> LimitMentions(msg, rls, mq)

----------------------------------------------------------------------------
(* AutoMod.check *)

\* the tuple with block_invites awaited before the lookup of links
CreateChecksInvitesFirst ==
    <<"find_message_spam", "find_duplicate_spam", "find_invite_spam",
      "find_link_spam", "find_attach_spam", "find_mention_spam",
      "block_invites", "block_malicious_links", "block_fake_links",
      "limit_mentions">>

\* the tuple handed to all() for a GuildMessageCreateEvent: every element is
\* awaited, in this order, while the tuple is built
CreateChecks ==
    <<"find_message_spam", "find_duplicate_spam", "find_invite_spam",
      "find_link_spam", "find_attach_spam", "find_mention_spam",
      "block_malicious_links", "block_invites", "block_fake_links",
      "limit_mentions">>

\* the tuple of an update with the invite rate check left in
UpdateChecksWithInviteSpam ==
    <<"find_invite_spam", "block_malicious_links", "block_invites",
      "block_fake_links", "limit_mentions">>

\* the tuple handed to all() for a GuildMessageUpdateEvent
UpdateChecks ==
    <<"block_malicious_links", "block_invites", "block_fake_links", "limit_mentions">>

\* (a task that is a direct call of moderate has that call as its one step)
Checks(ev) ==
    CASE ev.kind = "create" -> CreateChecks
      [] ev.kind = "moderate" -> <<"moderate">>
      [] OTHER -> UpdateChecks

\* the early returns of check (the bot's own member is in the cache)
Skipped(ev) ==
    ev.author = None \/ ev.guild_id = None \/ ev.member \in {"uncached", "bot"}

\* a classifier of task tk has returned ok; the next element of the tuple is
\* evaluated, or check returns
Returned(tk, ok) ==
    LET tk1 == [tk EXCEPT !.finished = Append(@, [name |-> Checks(tk.ev)[tk.idx], ok |-> ok]),
                          !.idx = @ + 1]
    IN  IF tk1.idx > Len(Checks(tk.ev)) THEN [tk1 EXCEPT !.st = "done"]
        ELSE [tk1 EXCEPT !.st = "running"]

\* moderate is entered: it awaits DatabaseMember.fetch
EnterModerate(tk, offence, queue, reason) ==
    [tk EXCEPT !.st = "await_fetch", !.offence = offence, !.queue = queue,
               !.reason = reason, !.moderated = @ + 1]

\* the loop runs task t on, or is idle again when its check ended or waits
Resume(t, tk) ==
    /\ tasks' = [tasks EXCEPT ![t] = tk]
    /\ cur' = IF tk.st = "running" THEN t ELSE 0

FreeSlot(t) == tasks[t].st \in {"idle", "done", "failed"}

\* run_automod is started for event e
Dispatch(t, e) ==
    /\ cur = 0
    /\ e \in Traffic
    /\ nevents < MaxTraffic
    /\ FreeSlot(t)
    /\ \A t2 \in Tasks : t2 < t => ~FreeSlot(t2)
    /\ LET ev == [kind |-> e.kind, author |-> e.author, guild_id |-> e.guild_id,
                  member |-> e.member, content |-> e.content, id |-> nevents + 1]
           tk == [IdleTask EXCEPT !.ev = ev, !.idx = 1]
       IN  /\ nevents' = nevents + 1
           /\ msg_cache' = Put(msg_cache, ev.id, ev.content.text)
           /\ Resume(t, IF Skipped(ev) THEN [tk EXCEPT !.st = "done"]
                        ELSE [tk EXCEPT !.st = "running"])
    /\ UNCHANGED <<now, rlvars, apivars, strikes, deleted, rate_log, sbvars, link>>

\* the next classifier of the tuple runs, to its return or its first await
RunClassifier(t) ==
    /\ cur = t
    /\ tasks[t].st = "running"
    /\ LET tk == tasks[t]
           name == Checks(tk.ev)[tk.idx]
           r == Classify(name, tk.ev, rate_limiters, message_queue, msg_cache, now)
           tk1 == [tk EXCEPT !.started = Append(@, name)]
           key == GetKey(tk.ev)
       IN  /\ rate_limiters' = r.rls
           /\ ready' = Schedule(ready, rate_limiters, r.rls)
           /\ message_queue' = r.mq
           /\ rate_log' =
                IF name = "find_message_spam"
                THEN Put(rate_log, key,
                         Append(IF key \in DOMAIN rate_log THEN rate_log[key] ELSE <<>>,
                                r.verdict = "moderate"))
                ELSE rate_log
           /\ Resume(t, CASE r.verdict = "pass" -> Returned(tk1, TRUE)
                          [] r.verdict = "moderate" -> EnterModerate(tk1, r.offence, r.queue, name)
                          [] r.verdict = "io" -> [tk1 EXCEPT !.st = "await_whitelist"])
    /\ UNCHANGED <<now, apivars, nevents, strikes, msg_cache, deleted, sbvars, link>>

\* block_malicious_links after the allow list was read
LinkWhitelistRead(t) ==
    /\ cur = 0
    /\ tasks[t].st = "await_whitelist"
    /\ Resume(t, IF tasks[t].ev.content.url = "white" THEN Returned(tasks[t], TRUE)
                 ELSE [tasks[t] EXCEPT !.st = "await_blacklist"])
    /\ UNCHANGED <<now, rlvars, apivars, nevents, strikes, msg_cache, deleted, rate_log, sbvars, link>>

\* block_malicious_links after the deny list was read
LinkBlacklistRead(t) ==
    /\ cur = 0
    /\ tasks[t].st = "await_blacklist"
    /\ Resume(t, IF tasks[t].ev.content.url = "black"
                 THEN EnterModerate(tasks[t], "BLOCKED", NoList, "block_malicious_links")
                 ELSE [tasks[t] EXCEPT !.st = "await_safebrowsing"])
    /\ UNCHANGED <<now, rlvars, apivars, nevents, strikes, msg_cache, deleted, rate_log, sbvars, link>>

\* block_malicious_links after safebrowsing_client.check returned.  check
\* returns once the URL has a cached result, and _lookup_urls stores a result
\* only for a URL the API reports as a threat (results[url] raises KeyError
\* for any other): the result is unsafe, or check never returns
LinkLookedUp(t) ==
    /\ cur = 0
    /\ tasks[t].st = "await_safebrowsing"
    /\ Resume(t, EnterModerate(tasks[t], "BLOCKED", NoList, "block_malicious_links"))
    /\ UNCHANGED <<now, rlvars, apivars, nevents, strikes, msg_cache, deleted, rate_log, sbvars, link>>

----------------------------------------------------------------------------
(* AutoMod.moderate, one action for each await *)

Remove(f, ids) == [x \in DOMAIN f \ ids |-> f[x]]
Range(q) == {q[i] : i \in 1..Len(q)}

AfterDeleteNoCap(tk) == [tk EXCEPT !.db_strikes = @ + 1, !.st = "await_update"]

\* after the deletions: the strike is added and update awaited, or moderate
\* returns (4 strikes or more)
AfterDelete(tk) ==
    IF tk.db_strikes < 4
    THEN [tk EXCEPT !.db_strikes = @ + 1, !.st = "await_update"]
    ELSE Returned(tk, FALSE)

\* DatabaseMember.fetch has returned; message.delete is awaited
ModFetched(t) ==
    /\ cur = 0
    /\ tasks[t].st = "await_fetch"
    /\ Resume(t, [tasks[t] EXCEPT !.db_strikes = strikes[tasks[t].ev.author],
                                  !.fetched = strikes[tasks[t].ev.author],
                                  !.st = "await_delete"])
    /\ UNCHANGED <<now, rlvars, apivars, nevents, strikes, msg_cache, deleted, rate_log, sbvars, link>>

\* message.delete has returned, or raised NotFoundError (suppressed, and the
\* queued messages are then not deleted)
ModDeleted(t) ==
    /\ cur = 0
    /\ tasks[t].st = "await_delete"
    /\ LET tk == tasks[t] IN
       IF tk.ev.id \in deleted
       THEN /\ Resume(t, AfterDelete(tk))
            /\ UNCHANGED <<msg_cache, deleted>>
       ELSE /\ deleted' = deleted \cup {tk.ev.id}
            /\ msg_cache' = Remove(msg_cache, {tk.ev.id})
            /\ Resume(t, IF tk.queue # NoList /\ tk.queue # <<>>
                         THEN [tk EXCEPT !.st = "await_delete_messages"]
                         ELSE AfterDelete(tk))
    /\ UNCHANGED <<now, rlvars, apivars, nevents, strikes, rate_log, sbvars, link>>

\* rest.delete_messages(channel, message_queue) has returned
ModQueueDeleted(t) ==
    /\ cur = 0
    /\ tasks[t].st = "await_delete_messages"
    /\ deleted' = deleted \cup Range(tasks[t].queue)
    /\ msg_cache' = Remove(msg_cache, Range(tasks[t].queue))
    /\ Resume(t, AfterDelete(tasks[t]))
    /\ UNCHANGED <<now, rlvars, apivars, nevents, strikes, rate_log, sbvars, link>>

\* the content of the notice moderate sends for a blocked message, and of the
\* notice Moderator.timeout sends
Warning(reason) == [kind |-> "warning", reason |-> reason, expiration |-> None]
TimeoutNotice(reason, duration) ==
    [kind |-> "timeout", reason |-> reason, expiration |-> duration]

TimeoutSecondsLinear(db_strikes) == 10 * db_strikes

\* timeout = 10**db_member.strikes
TimeoutSeconds(db_strikes) == 10 ^ db_strikes

AfterUpdateTimeoutAlways(tk, time) ==
    [tk EXCEPT !.increments = @ + 1,
               !.duration = time + TimeoutSeconds(tk.db_strikes),
               !.st = "await_edit"]

\* after db_member.update: the notice of a blocked message is sent, or the
\* end of the timeout is computed from the clock and Moderator.timeout is
\* called, which awaits member.edit
AfterUpdate(tk, time) ==
    IF tk.offence = "BLOCKED"
    THEN [tk EXCEPT !.increments = @ + 1, !.content = Warning(tk.reason),
                    !.st = "await_notice"]
    ELSE [tk EXCEPT !.increments = @ + 1,
                    !.duration = time + TimeoutSeconds(tk.db_strikes),
                    !.st = "await_edit"]

\* db_member.update has returned; the notice or the timeout is awaited
ModUpdated(t) ==
    /\ cur = 0
    /\ tasks[t].st = "await_update"
    /\ strikes' = [strikes EXCEPT ![tasks[t].ev.author] = tasks[t].db_strikes]
    /\ Resume(t, AfterUpdate(tasks[t], now))
    /\ UNCHANGED <<now, rlvars, apivars, nevents, msg_cache, deleted, rate_log, sbvars, link>>

\* Moderator.timeout: member.edit has returned or raised
ModTimedOut(t) ==
    /\ cur = 0
    /\ tasks[t].st = "await_edit"
    /\ \E ok \in BOOLEAN :
          Resume(t, IF ok THEN [tasks[t] EXCEPT !.timeouts = @ + 1,
                                                !.content = TimeoutNotice(tasks[t].reason,
                                                                          tasks[t].duration),
                                                !.st = "await_notice"]
                    ELSE [tasks[t] EXCEPT !.st = "failed"])
    /\ UNCHANGED <<now, rlvars, apivars, nevents, strikes, msg_cache, deleted, rate_log, sbvars, link>>

\* a notice whose failure takes the strike back
ModNoticedRollback(t) ==
    /\ cur = 0
    /\ tasks[t].st = "await_notice"
    /\ \E delivered \in BOOLEAN :
          /\ Resume(t, IF delivered THEN Returned([tasks[t] EXCEPT !.notices = @ + 1], FALSE)
                       ELSE [tasks[t] EXCEPT !.st = "failed"])
          /\ strikes' = IF delivered THEN strikes
                        ELSE [strikes EXCEPT ![tasks[t].ev.author] = tasks[t].fetched]
    /\ UNCHANGED <<now, rlvars, apivars, nevents, msg_cache, deleted, rate_log, sbvars, link>>

\* Moderator.notice: member.send has returned, or raised ForbiddenError, which
\* notice raises on as DirectMessageFailedError
ModNoticed(t) ==
    /\ cur = 0
    /\ tasks[t].st = "await_notice"
    /\ \E delivered \in BOOLEAN :
          Resume(t, IF delivered THEN Returned([tasks[t] EXCEPT !.notices = @ + 1], FALSE)
                    ELSE [tasks[t] EXCEPT !.st = "failed"])
    /\ UNCHANGED <<now, rlvars, apivars, nevents, strikes, msg_cache, deleted, rate_log, sbvars, link>>

----------------------------------------------------------------------------
(* The bot, observed within one second of the clock: no window ends and no   *)
(* queue task wakes from its sleep.                                          *)

AllKeys == {GetKey(e) : e \in Events \cup BurstEvents} \ {ValueError}

Init ==
    /\ now = 0
    /\ rate_limiters = [b \in BucketNames |-> <<>>]
    /\ message_queue = [b \in BucketNames |-> <<>>]
    /\ ready = <<>>
    /\ target = "MESSAGE"
    /\ traffic \in {"mixed", "burst"}
    /\ lastCall = NoCall
    /\ calls = 0
    /\ sent = <<>>
    /\ InitPipeline

TaskStep(t) ==
    \/ RunClassifier(t)
    \/ LinkWhitelistRead(t)
    \/ LinkBlacklistRead(t)
    \/ LinkLookedUp(t)
    \/ ModFetched(t)
    \/ ModDeleted(t)
    \/ ModQueueDeleted(t)
    \/ ModUpdated(t)
    \/ ModTimedOut(t)
    \/ ModNoticed(t)

Next ==
    \/ \E t \in Tasks, e \in Events \cup BurstEvents : Dispatch(t, e)
    \/ \E t \in Tasks : TaskStep(t)
    \/ \E b \in BucketNames, key \in AllKeys : RunQueue(b, key)

Spec == Init /\ [][Next]_vars

----------------------------------------------------------------------------
(* The classifiers at work on the messages of one member (specification      *)
(* SpecTalk): the moderation a classifier calls for stays suspended in its    *)
(* first await.                                                              *)

InitTalk ==
    /\ now = 0
    /\ rate_limiters = [b \in BucketNames |-> <<>>]
    /\ message_queue = [b \in BucketNames |-> <<>>]
    /\ ready = <<>>
    /\ target = "MESSAGE"
    /\ traffic = "talk"
    /\ lastCall = NoCall
    /\ calls = 0
    /\ sent = <<>>
    /\ InitPipeline

NextTalk ==
    \/ \E t \in Tasks, e \in TalkEvents : Dispatch(t, e)
    \/ \E t \in Tasks : RunClassifier(t)
    \/ \E b \in BucketNames, key \in {GetKey(e) : e \in TalkEvents} : RunQueue(b, key)

SpecTalk == InitTalk /\ [][NextTalk]_vars

----------------------------------------------------------------------------
(* block_malicious_links called directly on the URLs of one message          *)
(* (specification SpecLinks).                                                *)

InitLinks ==
    /\ now = 0
    /\ rate_limiters = [b \in BucketNames |-> <<>>]
    /\ message_queue = [b \in BucketNames |-> <<>>]
    /\ ready = <<>>
    /\ target = "MESSAGE"
    /\ traffic = "mixed"
    /\ lastCall = NoCall
    /\ calls = 0
    /\ sent = <<>>
    /\ InitPipeline

NextLinks ==
    \/ \E matches \in MatchLists : CallBlockMaliciousLinks(matches)
    \/ ReadWhitelist
    \/ ReadBlacklist
    \/ CheckReturned

SpecLinks == InitLinks /\ [][NextLinks]_vars

----------------------------------------------------------------------------
(* AutoMod.moderate called directly, for members with any stored strikes,    *)
(* while the clock runs.  Each task is one call.                             *)

Offences == {"SPAM", "BLOCKED"}
Reasons == {"invite links are not allowed.", "sending messages too frequently."}
Queues == {NoList, <<1>>}

\* await self.moderate(message, offence, media, reason, message_queue)
CallModerate(t, author, offence, reason, queue) ==
    /\ cur = 0
    /\ tasks[t].st = "idle"
    /\ \A t2 \in Tasks : t2 < t => tasks[t2].st # "idle"
    /\ LET ev == [kind |-> "moderate", author |-> author, guild_id |-> 1,
                  member |-> "member", content |-> Plain(TextA), id |-> nevents + 1]
       IN  /\ nevents' = nevents + 1
           /\ msg_cache' = Put(msg_cache, ev.id, ev.content.text)
           /\ Resume(t, EnterModerate([IdleTask EXCEPT !.ev = ev, !.idx = 1],
                                      offence, queue, reason))
    /\ UNCHANGED <<now, rlvars, apivars, strikes, deleted, rate_log, sbvars, link>>

TickMod == Tick(MaxDelay)

InitMod ==
    /\ now = 0
    /\ rate_limiters = [b \in BucketNames |-> <<>>]
    /\ message_queue = [b \in BucketNames |-> <<>>]
    /\ ready = <<>>
    /\ target = "MESSAGE"
    /\ traffic = "mixed"
    /\ lastCall = NoCall
    /\ calls = 0
    /\ sent = <<>>
    /\ \E s \in 0..MaxStrikes : strikes = [u \in UserIds |-> s]
    /\ strikes0 = strikes
    /\ InitClient
    /\ tasks = [t \in Tasks |-> IdleTask]
    /\ cur = 0
    /\ nevents = 0
    /\ msg_cache = <<>>
    /\ deleted = {}
    /\ rate_log = <<>>
    /\ link = IdleLink

ModStep(t) ==
    \/ ModFetched(t)
    \/ ModDeleted(t)
    \/ ModQueueDeleted(t)
    \/ ModUpdated(t)
    \/ ModTimedOut(t)
    \/ ModNoticed(t)

NextMod ==
    \/ \E t \in Tasks, author \in UserIds, offence \in Offences, reason \in Reasons,
          queue \in Queues : CallModerate(t, author, offence, reason, queue)
    \/ \E t \in Tasks : ModStep(t)
    \/ TickMod

SpecMod == InitMod /\ [][NextMod]_vars

----------------------------------------------------------------------------
(* AutoMod.moderate called up to MaxModerations times for one member with no *)
(* stored strikes (specification SpecStrikes).  A call that has returned     *)
(* leaves its slot to the next call.                                         *)

\* await self.moderate(message, offence, media, reason, message_queue), for a
\* message of member 1
CallModerateNext(t, offence, queue) ==
    /\ cur = 0
    /\ FreeSlot(t)
    /\ \A t2 \in Tasks : t2 < t => ~FreeSlot(t2)
    /\ nevents < MaxModerations
    /\ LET ev == [kind |-> "moderate", author |-> 1, guild_id |-> 1,
                  member |-> "member", content |-> Plain(TextA), id |-> nevents + 1]
       IN  /\ nevents' = nevents + 1
           /\ msg_cache' = Put(msg_cache, ev.id, ev.content.text)
           /\ Resume(t, EnterModerate([IdleTask EXCEPT !.ev = ev, !.idx = 1],
                                      offence, queue, "sending messages too frequently."))
    /\ UNCHANGED <<now, rlvars, apivars, strikes, deleted, rate_log, sbvars, link>>

InitStrikes ==
    /\ InitRL
    /\ target = "MESSAGE"

NextStrikes ==
    \/ \E t \in Tasks, offence \in Offences, queue \in Queues :
          CallModerateNext(t, offence, queue)
    \/ \E t \in Tasks : ModStep(t)

SpecStrikes == InitStrikes /\ [][NextStrikes]_vars

----------------------------------------------------------------------------
(* SafebrowsingClient (specification SpecSB): up to MaxChecks calls of check, *)
(* each for 1..MaxUrls URLs, and the queue task of the client                *)

BATCH_SIZE == 5

UrlLists == UNION {[1..n -> Urls] : n \in 1..MaxUrls}

Cached(cache, urls) == \A i \in 1..Len(urls) : urls[i] \in DOMAIN cache

\* SafeBrowsingResult(url, "unsafe", match["threatType"], cacheDuration)
Unsafe(url) == [url |-> url, status |-> "unsafe", type |-> "MALWARE", cache_duration |-> 300]

\* SafeBrowsingResult(url, "safe")
Safe(url) == [url |-> url, status |-> "safe", type |-> None, cache_duration |-> None]

\* the first loop of check with every URL put on the queue
CheckEnqueueAll(cache, queue, urls) == queue \o urls

\* the first loop of check: each URL without a cached result is put on the
\* queue (the queue is unbounded: put does not suspend)
CheckEnqueue(cache, queue, urls) ==
    queue \o SelectSeq(urls, LAMBDA u : u \notin DOMAIN cache)

\* SafebrowsingClient.check, to its return or its first self._event.wait()
Check(c, urls) ==
    /\ checks[c].st = "idle"
    /\ \A c2 \in CheckIds : c2 < c => checks[c2].st # "idle"
    /\ ~client.closed
    /\ LET q == CheckEnqueue(client.cache, client.queue, urls)
           ck == [IdleCheck EXCEPT !.urls = urls, !.puts = Len(q) - Len(client.queue)]
       IN  /\ client' = [client EXCEPT !.queue = q]
           /\ checks' = [checks EXCEPT ![c] =
                            IF Cached(client.cache, urls)
                            THEN [ck EXCEPT !.st = "returned",
                                            !.result = [i \in 1..Len(urls) |-> client.cache[urls[i]]]]
                            ELSE [ck EXCEPT !.st = "waiting", !.waited = TRUE]]
    /\ UNCHANGED <<now, rlvars, apivars, pipevars, link>>

\* a pass of _run_queue that takes the whole queue
TakeBatchAll(cl) ==
    [cl EXCEPT !.queue = <<>>, !.batch = cl.queue,
               !.task = "request", !.requests = Append(@, cl.queue)]

\* the start of a pass of _run_queue: one URL, then as many of the queued
\* URLs as the batch has room for; _request_api sends them
TakeBatch(cl) ==
    LET n == IF Len(cl.queue) < BATCH_SIZE THEN Len(cl.queue) ELSE BATCH_SIZE
        urls == SubSeq(cl.queue, 1, n)
    IN  [cl EXCEPT !.queue = SubSeq(@, n + 1, Len(@)), !.batch = urls,
                   !.task = "request", !.requests = Append(@, urls)]

\* self._queue.get() returns to the queue task
ConsumerGet ==
    /\ client.task = "get"
    /\ client.queue # <<>>
    /\ client' = TakeBatch(client)
    /\ UNCHANGED <<now, rlvars, apivars, pipevars, checks, link>>

\* _lookup_urls on the response body: the results, or the KeyError that
\* "if not results[url]" raises for a URL with no match
LookupUrls(urls, matches) ==
    IF \A i \in 1..Len(urls) : urls[i] \in matches
    THEN [raised |-> FALSE,
          results |-> [u \in {urls[i] : i \in 1..Len(urls)} |-> Unsafe(u)]]
    ELSE [raised |-> TRUE, results |-> [u \in {} |-> Unsafe(u)]]

\* a pass that goes on to the next batch without caching its results
StoreResultsSkipCache(cl, results) ==
    LET cl1 == [cl EXCEPT !.batch = <<>>]
    IN  IF cl1.queue # <<>> THEN TakeBatch(cl1) ELSE [cl1 EXCEPT !.task = "get"]

\* the rest of the pass after the results are there: they are cached, the
\* event is set and cleared, and the next pass begins
StoreResults(cl, results) ==
    LET cl1 == [cl EXCEPT !.cache = [u \in DOMAIN @ \cup DOMAIN results |->
                                       IF u \in DOMAIN results THEN results[u] ELSE @[u]],
                          !.batch = <<>>]
    IN  IF cl1.queue # <<>> THEN TakeBatch(cl1) ELSE [cl1 EXCEPT !.task = "get"]

\* the service answers the request in flight, with status 200 and the matches
\* of the batch, or with another status (_request_api then returns None and
\* response["matches"] raises TypeError)
Respond(ok) ==
    /\ client.task = "request"
    /\ LET r == LookupUrls(client.batch, Threats) IN
       IF ok /\ ~r.raised
       THEN /\ client' = [StoreResults(client, r.results) EXCEPT
                              !.answered = Append(@, client.batch)]
            /\ checks' = [c \in CheckIds |->
                            IF checks[c].st = "waiting"
                            THEN [checks[c] EXCEPT !.st = "woken"] ELSE checks[c]]
       ELSE /\ client' = [client EXCEPT !.task = "dead",
                                        !.answered = IF ok THEN Append(@, client.batch) ELSE @,
                                        !.failed = @ \/ ~ok]
            /\ UNCHANGED checks
    /\ UNCHANGED <<now, rlvars, apivars, pipevars, link>>

\* check returning at its first wake-up with the results there are
WakeNoRecheck(c) ==
    /\ checks[c].st = "woken"
    /\ LET ck == checks[c]
           have == SelectSeq(ck.urls, LAMBDA u : u \in DOMAIN client.cache)
       IN  checks' = [checks EXCEPT ![c] =
                        [ck EXCEPT !.st = "returned",
                                   !.result = [i \in 1..Len(have) |-> client.cache[have[i]]]]]
    /\ UNCHANGED <<now, rlvars, apivars, pipevars, client, link>>

\* self._event.wait() has returned: the while loop of check tests the cache
Wake(c) ==
    /\ checks[c].st = "woken"
    /\ LET ck == checks[c] IN
       checks' = [checks EXCEPT ![c] =
                    IF Cached(client.cache, ck.urls)
                    THEN [ck EXCEPT !.st = "returned",
                                    !.result = [i \in 1..Len(ck.urls) |-> client.cache[ck.urls[i]]]]
                    ELSE [ck EXCEPT !.st = "waiting"]]
    /\ UNCHANGED <<now, rlvars, apivars, pipevars, client, link>>

\* SafebrowsingClient.close
Close ==
    /\ ~client.closed
    /\ client' = [client EXCEPT !.closed = TRUE,
                                !.task = IF @ \in {"get", "request"} THEN "cancelled" ELSE @]
    /\ UNCHANGED <<now, rlvars, apivars, pipevars, checks, link>>

InitSB ==
    /\ now = 0
    /\ rate_limiters = [b \in BucketNames |-> <<>>]
    /\ message_queue = [b \in BucketNames |-> <<>>]
    /\ ready = <<>>
    /\ target = "MESSAGE"
    /\ traffic = "mixed"
    /\ lastCall = NoCall
    /\ calls = 0
    /\ sent = <<>>
    /\ InitPipeline

Answer == \E ok \in BOOLEAN : Respond(ok)

NextSB ==
    \/ \E c \in CheckIds, urls \in UrlLists : Check(c, urls)
    \/ ConsumerGet
    \/ Answer
    \/ \E c \in CheckIds : Wake(c)
    \/ Close

\* the loop runs every task that is ready, and the service answers every
\* request; nothing obliges the bot to call check or close
SpecSB ==
    /\ InitSB
    /\ [][NextSB]_vars
    /\ WF_vars(ConsumerGet)
    /\ WF_vars(Answer)
    /\ \A c \in CheckIds : WF_vars(Wake(c))

----------------------------------------------------------------------------
(* Properties of the rate limiter, checked under SpecRL *)

Limiter(key) == rate_limiters[target][key]
Quota == Bucket(target).count
Window == Bucket(target).timespan
TrackedItems == Bucket(target).message_queue_size
Min(a, b) == IF a < b THEN a ELSE b
MissingAuthorOrGuild(ctx) == ctx.author = None \/ ctx.guild_id = None
ValidCall(op) ==
    lastCall.op = op /\ ~lastCall.raised /\ ~MissingAuthorOrGuild(lastCall.ctx)
CallKey == DecStr(lastCall.ctx.guild_id) \o <<"-">> \o DecStr(lastCall.ctx.author)

\* C5: is_limited(key) returns true if and only if remaining <= 0 and
\* window_reset_at is strictly in the future; once now >= window_reset_at it
\* returns false whatever the stored remaining is.  Stated of the value the
\* function has in every reachable limiter state, and of the value a call
\* returned.
C5_IsLimitedIff ==
    /\ \A key \in DOMAIN rate_limiters[target] :
          IsRateLimited(rate_limiters, target, key, now)
            = (Limiter(key).remaining_requests <= 0 /\ Limiter(key).reset_at > now)
    /\ ValidCall("is_rate_limited") =>
          /\ CallKey \in DOMAIN rate_limiters[target]
          /\ lastCall.result
               = <<Limiter(CallKey).remaining_requests <= 0 /\ Limiter(CallKey).reset_at > now>>
          /\ now >= Limiter(CallKey).reset_at => lastCall.result = <<FALSE>>

\* C5 witness: is_rate_limited has returned false for a limiter whose quota is
\* used up and whose window has lapsed.
C5_Witness ==
    /\ ValidCall("is_rate_limited")
    /\ CallKey \in DOMAIN rate_limiters[target]
    /\ Limiter(CallKey).remaining_requests = 0
    /\ now >= Limiter(CallKey).reset_at
    /\ lastCall.result = <<FALSE>>

\* C6: a key never seen is not limited before any record; within the first
\* window (no reset yet, window open) the key is limited exactly when
\* quota + 1 records have been processed, and never more are processed.
C6_FirstWindow ==
    /\ \A c \in Contexts :
          (~MissingAuthorOrGuild(c) /\ GetKey(c) \notin DOMAIN rate_limiters[target])
             => ~IsRateLimited(rate_limiters, target, GetKey(c), now)
    /\ \A key \in DOMAIN rate_limiters[target] :
          Limiter(key).fresh =>
             /\ Limiter(key).consumed = 0
                  => ~IsRateLimited(rate_limiters, target, key, now)
             /\ now < Limiter(key).reset_at =>
                  /\ Limiter(key).consumed <= Quota + 1
                  /\ IsRateLimited(rate_limiters, target, key, now)
                       <=> Limiter(key).consumed = Quota + 1

\* C6 witness: quota + 1 records processed in the first window, and a call of
\* is_rate_limited returned true.
C6_Witness ==
    /\ ValidCall("is_rate_limited")
    /\ CallKey \in DOMAIN rate_limiters[target]
    /\ Limiter(CallKey).fresh
    /\ Limiter(CallKey).consumed = Quota + 1
    /\ lastCall.result = <<TRUE>>

\* C7 (state part): after a reset the limiter holds quota minus the records
\* processed since, and within the new window the key is limited exactly when
\* quota records have been processed since the reset, the one that met the
\* stale window included.
C7_AfterReset ==
    \A key \in DOMAIN rate_limiters[target] :
       ~Limiter(key).fresh =>
          /\ Limiter(key).remaining_requests = Quota - Limiter(key).consumed
          /\ now < Limiter(key).reset_at =>
                (IsRateLimited(rate_limiters, target, key, now)
                   <=> Limiter(key).consumed = Quota)

\* C7 (step part): a run of the queue task that ends at a time
\* now >= window_reset_at with n > 0 records pending sets
\* window_reset_at = now + window and leaves remaining = quota - min(n, quota):
\* the reset comes first and each record then takes one unit.
C7_StaleStep ==
    \A key \in DOMAIN rate_limiters[target] :
       LET rl == rate_limiters[target][key]
           rl2 == rate_limiters'[target][key]
           n == Len(rl.request_queue)
       IN  (/\ rl.queue_task.st \in {"ready", "sleeping"}
            /\ rl2.queue_task.st = "None"
            /\ rl.reset_at <= now
            /\ n > 0)
           => /\ rl2.reset_at = now + Window
              /\ rl2.remaining_requests = Quota - Min(n, Quota)
              /\ Len(rl2.request_queue) = n - Min(n, Quota)
              /\ n = 1 => rl2.remaining_requests = Quota - 1

\* C7: a record processed at now >= window_reset_at resets first (remaining =
\* quota, window_reset_at = now + window) and then consumes, so remaining is
\* quota - 1 after it and quota - 1 further records limit the key again.
C7_ResetThenConsume == []C7_AfterReset /\ [][C7_StaleStep]_vars

\* C7 witness: no reset call was ever made, the queue task has reset the
\* limiter, quota records have been processed since and the key is limited.
C7_Witness ==
    \E key \in DOMAIN rate_limiters[target] :
       /\ key \in DOMAIN sent
       /\ calls = Len(sent[key])
       /\ ~Limiter(key).fresh
       /\ Limiter(key).consumed = Quota
       /\ IsRateLimited(rate_limiters, target, key, now)

\* C9 (state part): a call with a context lacking author or guild raised.
C9_Raised ==
    (lastCall.op # "none" /\ MissingAuthorOrGuild(lastCall.ctx))
       => lastCall.raised

\* C9 (step part): such a call leaves the registry as it was.
C9_Frame ==
    (lastCall'.op # "none" /\ MissingAuthorOrGuild(lastCall'.ctx))
       => UNCHANGED <<rate_limiters, message_queue>>

\* C9: add_message (and add within it), is_rate_limited, reset and
\* get_messages, called with a context without author or without guild, raise
\* and leave the registry unchanged: no limiter created, no request queued, no
\* id tracked.
C9_InvalidContext == []C9_Raised /\ [][C9_Frame]_vars

\* C9 witness: add_message was called without an author while a limiter exists.
C9_Witness ==
    /\ lastCall.op = "add_message"
    /\ lastCall.ctx.author = None
    /\ lastCall.raised
    /\ DOMAIN rate_limiters[target] # {}

\* the last Min(n, Len(h)) items of h
LastItems(h, n) == SubSeq(h, Len(h) - Min(n, Len(h)) + 1, Len(h))

\* C10: with tracked_items = N > 0 the tracked ids of a key are the ids of its
\* last min(N, number of add_message calls) messages, in arrival order; with
\* tracked_items = 0 nothing is stored and get_messages returns no list.
C10_TrackedIds ==
    /\ \A key \in DOMAIN sent :
          IF TrackedItems > 0
          THEN /\ key \in DOMAIN message_queue[target]
               /\ message_queue[target][key] = LastItems(sent[key], TrackedItems)
          ELSE key \notin DOMAIN message_queue[target]
    /\ DOMAIN message_queue[target] \subseteq DOMAIN sent
    /\ ValidCall("get_messages") =>
          lastCall.result =
             IF TrackedItems > 0 /\ CallKey \in DOMAIN sent
             THEN LastItems(sent[CallKey], TrackedItems)
             ELSE <<None>>

\* C10 witness: more than N > 0 messages were recorded, so the oldest was
\* evicted, and get_messages returned the list.
C10_Witness ==
    /\ ValidCall("get_messages")
    /\ TrackedItems > 0
    /\ CallKey \in DOMAIN sent
    /\ Len(sent[CallKey]) > TrackedItems
    /\ lastCall.result # <<None>>

----------------------------------------------------------------------------
(* Properties of AutoMod.check and AutoMod.moderate, checked under Spec *)

IsPrefix(s, q) == Len(s) <= Len(q) /\ s = SubSeq(q, 1, Len(s))

Names(finished) == [i \in 1..Len(finished) |-> finished[i].name]

\* C1: for a created message, once a classifier has reported an offence
\* (returned False), no later classifier is run for that message.
C1_ShortCircuit ==
    \A t \in Tasks :
       tasks[t].ev.kind = "create"
       => \A i \in 1..Len(tasks[t].finished) :
             ~tasks[t].finished[i].ok => Len(tasks[t].started) <= i

\* C2: for one message event, moderate adds at most one strike to the member
\* and applies at most one timeout and sends at most one notice.
C2_EnforcedOnce ==
    \A t \in Tasks :
       /\ tasks[t].increments <= 1
       /\ tasks[t].timeouts <= 1
       /\ tasks[t].notices <= 1

\* the order of the classifiers for a created message
C3_Order ==
    <<"find_message_spam", "find_duplicate_spam", "find_invite_spam",
      "find_link_spam", "find_attach_spam", "find_mention_spam",
      "block_malicious_links", "block_invites", "block_fake_links",
      "limit_mentions">>

\* C3: for a created message the classifiers are started in the order
\* message-rate, duplicate-content, invite-spam, link-spam, attachment-spam,
\* mention-spam, unsafe-link, blocked-invite, fake-hyperlink, excess-mentions,
\* and none is started before every earlier one has returned.
C3_FixedOrder ==
    \A t \in Tasks :
       tasks[t].ev.kind = "create"
       => /\ IsPrefix(tasks[t].started, C3_Order)
          /\ IsPrefix(Names(tasks[t].finished), tasks[t].started)
          /\ Len(tasks[t].started) <= Len(tasks[t].finished) + 1

\* a created message with two offences has gone through the ten classifiers
C3_Witness ==
    \E t \in Tasks :
       /\ tasks[t].ev.kind = "create"
       /\ tasks[t].st = "done"
       /\ Len(tasks[t].finished) = Len(C3_Order)
       /\ \E i, j \in 1..Len(tasks[t].finished) :
             i < j /\ ~tasks[t].finished[i].ok /\ ~tasks[t].finished[j].ok

\* the classifiers of an edited message
C4_Order ==
    <<"block_malicious_links", "block_invites", "block_fake_links", "limit_mentions">>

C4_OnlyContentChecks ==
    \A t \in Tasks :
       tasks[t].ev.kind = "update"
       => /\ IsPrefix(tasks[t].started, C4_Order)
          /\ IsPrefix(Names(tasks[t].finished), tasks[t].started)

\* a step of the processing of an edited message leaves every limiter, every
\* list of tracked ids, the set of keys and the pending queue tasks as they are
C4_Frame ==
    \A t \in Tasks :
       (tasks'[t] # tasks[t] /\ tasks'[t].ev.kind = "update")
       => UNCHANGED <<rate_limiters, message_queue, ready>>

\* C4: processing an edited message runs only unsafe-link, blocked-invite,
\* fake-hyperlink and excess-mentions, and leaves the state of every rate
\* limiter in the six buckets unchanged.
C4_EditLeavesLimiters == []C4_OnlyContentChecks /\ [][C4_Frame]_vars

\* an edited message with an offence has gone through its four classifiers
\* while a limiter of an earlier message exists
C4_Witness ==
    \E t \in Tasks :
       /\ tasks[t].ev.kind = "update"
       /\ tasks[t].st = "done"
       /\ Names(tasks[t].finished) = C4_Order
       /\ tasks[t].moderated > 0
       /\ \E b \in BucketNames : DOMAIN rate_limiters[b] # {}

\* C8: when one member sends messages back to back within a second, with
\* the message-rate policy of 5 messages in 5 seconds, find_message_spam
\* reports no offence for the first five and an offence for the sixth.
C8_SixthMessageOffends ==
    traffic = "burst"
    => \A key \in DOMAIN rate_log :
          \A i \in 1..Len(rate_log[key]) :
             /\ i <= MESSAGE_SPAM_COUNT => ~rate_log[key][i]
             /\ i = MESSAGE_SPAM_COUNT + 1 => rate_log[key][i]

----------------------------------------------------------------------------
(* Properties of SafebrowsingClient, checked under SpecSB *)

\* the number of times url was sent to the service
TimesSent(url) ==
    LET RECURSIVE Count(_, _)
        Count(q, n) == IF q = <<>> THEN n
                       ELSE Count(Tail(q), n + (IF Head(q) = url THEN 1 ELSE 0))
        RECURSIVE Sum(_)
        Sum(rs) == IF rs = <<>> THEN 0 ELSE Count(Head(rs), 0) + Sum(Tail(rs))
    IN  Sum(client.requests)

Released(c) == checks[c].st \in {"returned", "raised"}

\* C11: every call of check eventually returns, with one verdict for each URL
\* requested, whatever the service reports for the URLs, provided the service
\* answers every batch with success (and close is not called).
C11_EveryCheckReturns ==
    \A c \in CheckIds :
       (checks[c].st = "waiting")
          ~> \/ /\ checks[c].st = "returned"
                /\ Len(checks[c].result) = Len(checks[c].urls)
             \/ client.failed
             \/ client.closed

\* C12: each URL is sent to the service at most once, however many calls of
\* check ask for it and however often it occurs in one call.
C12_SentAtMostOnce == \A u \in Urls : TimesSent(u) <= 1

\* a step that starts a call of check all of whose URLs have a cached result
\* leaves the queue, the queue task and the requests sent as they are, and the
\* call has returned the cached results without waiting
C13_Step ==
    \A c \in CheckIds :
       (/\ checks[c].st = "idle"
        /\ checks'[c].st # "idle"
        /\ Cached(client.cache, checks'[c].urls))
       => /\ client' = client
          /\ checks'[c].st = "returned"
          /\ ~checks'[c].waited
          /\ checks'[c].result =
                [i \in 1..Len(checks'[c].urls) |-> client.cache[checks'[c].urls[i]]]

\* C13: a call of check whose URLs all have a cached verdict puts nothing on
\* the queue, causes no request, does not wait on the event and returns the
\* cached verdicts.
C13_CachedShortCircuits == [][C13_Step]_vars

\* a call for cached URLs has returned, having put nothing and not waited
C13_Witness ==
    \E c \in CheckIds :
       /\ checks[c].st = "returned"
       /\ checks[c].puts = 0
       /\ ~checks[c].waited
       /\ Len(checks[c].result) = Len(checks[c].urls)
       /\ Len(checks[c].urls) > 0

\* C14: after a batch was answered with success every URL of the batch has its
\* verdict in the cache, unsafe if the answer lists a match for it and safe if
\* not, and no call waits whose URLs are all cached.
C14_BatchCached ==
    /\ \A k \in 1..Len(client.answered) :
          \A i \in 1..Len(client.answered[k]) :
             LET u == client.answered[k][i] IN
             /\ u \in DOMAIN client.cache
             /\ client.cache[u] = IF u \in Threats THEN Unsafe(u) ELSE Safe(u)
    /\ \A c \in CheckIds :
          checks[c].st = "waiting" => ~Cached(client.cache, checks[c].urls)

\* C15: after a request failed (status other than 200) no call of check stays
\* blocked for ever: each waiting call ends with a failure or a verdict.
C15_FailureReleases ==
    \A c \in CheckIds :
       (checks[c].st = "waiting" /\ client.failed /\ ~client.closed)
          ~> (Released(c) \/ client.closed)

\* C16: after close has cancelled the queue task every call still waiting in
\* check is released with an error.
C16_CloseReleases ==
    \A c \in CheckIds :
       (checks[c].st \in {"waiting", "woken"} /\ client.closed)
          ~> (checks[c].st = "raised")

----------------------------------------------------------------------------
(* Properties of AutoMod.moderate, checked under SpecMod *)

\* the call of moderate that task t is has got the member's record
Fetched(t) == tasks[t].st \notin {"idle", "await_fetch"}

\* moderate has returned or raised
Ended(t) == tasks[t].st \in {"done", "failed"}

\* db_member.update returns to task t in this step
UpdateReturns(t) == tasks[t].st = "await_update" /\ tasks'[t].st # "await_update"

\* the seconds of timeout the claim lists for each resulting count
ListedSeconds(count) ==
    CASE count = 1 -> 10
      [] count = 2 -> 100
      [] count = 3 -> 1000
      [] count = 4 -> 10000

C17_Step ==
    \A t \in Tasks :
       (UpdateReturns(t) /\ tasks[t].offence = "SPAM" /\ tasks[t].fetched < 4)
       => /\ strikes'[tasks[t].ev.author] = tasks[t].fetched + 1
          /\ tasks'[t].st = "await_edit"
          /\ tasks'[t].duration = now + ListedSeconds(tasks[t].fetched + 1)

C17_Applied ==
    \A t \in Tasks :
       (Fetched(t) /\ tasks[t].offence = "SPAM" /\ tasks[t].fetched < 4)
       => /\ tasks[t].timeouts > 0
             => /\ tasks[t].timeouts = 1
                /\ tasks[t].content = TimeoutNotice(tasks[t].reason, tasks[t].duration)
          /\ tasks[t].st = "done" => tasks[t].timeouts = 1 /\ tasks[t].increments = 1

\* C17: a spam offence of a member with s < 4 stored strikes persists s + 1
\* strikes and calls for a timeout that ends 10^(s+1) seconds (10, 100, 1000,
\* 10000) after the clock reading taken when the timeout is issued.
C17_SpamTimeout == [][C17_Step]_vars /\ []C17_Applied

\* a member with 3 strikes was timed out, one second into the run, for 10000
\* seconds and has 4 strikes
C17_Witness ==
    \E t \in Tasks :
       /\ tasks[t].st = "done" /\ tasks[t].offence = "SPAM"
       /\ tasks[t].fetched = 3
       /\ strikes[tasks[t].ev.author] = 4
       /\ tasks[t].timeouts = 1
       /\ tasks[t].duration = 10001

C18_Step ==
    \A t \in Tasks :
       (Fetched(t) /\ tasks[t].fetched >= 4 /\ tasks'[t] # tasks[t])
       => strikes' = strikes

C18_OnlyDeletes ==
    \A t \in Tasks :
       (Fetched(t) /\ tasks[t].fetched >= 4)
       => /\ tasks[t].st \in {"await_delete", "await_delete_messages", "done"}
          /\ tasks[t].increments = 0
          /\ tasks[t].timeouts = 0 /\ tasks[t].duration = None
          /\ tasks[t].notices = 0 /\ tasks[t].content = NoNotice

\* C18: an offence of either kind of a member with 4 stored strikes or more
\* writes no strike count and calls for no timeout and no notice: moderate
\* only deletes.
C18_CappedAtFour == [][C18_Step]_vars /\ []C18_OnlyDeletes

\* moderate has returned for a member with 5 strikes, the message deleted
C18_Witness ==
    \E t \in Tasks :
       /\ tasks[t].st = "done" /\ tasks[t].fetched = 5
       /\ tasks[t].ev.id \in deleted
       /\ strikes[tasks[t].ev.author] = 5

C19_Step ==
    \A t \in Tasks :
       (UpdateReturns(t) /\ tasks[t].offence = "BLOCKED" /\ tasks[t].fetched < 4)
       => /\ strikes'[tasks[t].ev.author] = tasks[t].fetched + 1
          /\ tasks'[t].st = "await_notice"
          /\ tasks'[t].content = Warning(tasks[t].reason)

C19_NoTimeout ==
    \A t \in Tasks :
       (Fetched(t) /\ tasks[t].offence = "BLOCKED" /\ tasks[t].fetched < 4)
       => /\ tasks[t].timeouts = 0 /\ tasks[t].duration = None
          /\ tasks[t].notices <= 1
          /\ tasks[t].st # "await_edit"
          /\ tasks[t].st = "done"
                => /\ tasks[t].notices = 1 /\ tasks[t].increments = 1
                   /\ tasks[t].content = Warning(tasks[t].reason)

\* C19: a blocked message of a member with s < 4 stored strikes persists
\* s + 1 strikes and sends one warning notice that carries the reason; no
\* timeout is called for.
C19_BlockedWarns == [][C19_Step]_vars /\ []C19_NoTimeout

\* a blocked message was enforced: one strike more, one warning delivered
C19_Witness ==
    \E t \in Tasks :
       /\ tasks[t].st = "done" /\ tasks[t].offence = "BLOCKED"
       /\ tasks[t].fetched < 4
       /\ strikes[tasks[t].ev.author] = tasks[t].fetched + 1
       /\ tasks[t].notices = 1
       /\ tasks[t].content = Warning(tasks[t].reason)

\* the calls of moderate made for member u
CallsFor(u) == {t \in Tasks : tasks[t].st # "idle" /\ tasks[t].ev.author = u}

\* C20: when every call of moderate has ended, a member who had s strikes and
\* was moderated N times, s + N <= 4, has s + N strikes.
C20_NoLostUpdate ==
    \A u \in UserIds :
       ((\A t \in CallsFor(u) : Ended(t)) /\ strikes0[u] + Cardinality(CallsFor(u)) <= 4)
       => strikes[u] = strikes0[u] + Cardinality(CallsFor(u))

----------------------------------------------------------------------------
(* Properties of the limiter's counters and window, checked under SpecRL *)

\* C24: in every state of every limiter 0 <= remaining_requests <= count + 1;
\* it is count + 1 only while nothing was consumed since the creation, it is
\* at most count once a reset was made, and consuming never takes it below 0.
C24_RemainingBounds ==
    \A key \in DOMAIN rate_limiters[target] :
       /\ Limiter(key).remaining_requests >= 0
       /\ Limiter(key).remaining_requests <= Quota + 1
       /\ Limiter(key).remaining_requests = Quota + 1
             => Limiter(key).fresh /\ Limiter(key).consumed = 0
       /\ ~Limiter(key).fresh => Limiter(key).remaining_requests <= Quota
       /\ Limiter(key).remaining_requests + Limiter(key).consumed
             = IF Limiter(key).fresh THEN Quota + 1 ELSE Quota

\* a limiter that was reset has used its quota up and a record waits
C24_Witness ==
    \E key \in DOMAIN rate_limiters[target] :
       /\ ~Limiter(key).fresh
       /\ Limiter(key).remaining_requests = 0
       /\ Limiter(key).consumed = Quota
       /\ Limiter(key).request_queue # <<>>

\* the queue task of the limiter of key runs from its start in this step
QueueTaskStarts(key) ==
    /\ Limiter(key).queue_task.st = "ready"
    /\ rate_limiters'[target][key].queue_task.st # "ready"

\* the last call was op, made for key, and it returned
CallOn(call, ops, key) ==
    /\ call.op \in ops
    /\ ~call.raised
    /\ GetKey(call.ctx) = key

C25_Step ==
    \A key \in DOMAIN rate_limiters[target] :
       LET old == rate_limiters[target][key]
           new == rate_limiters'[target][key]
       IN  /\ new.reset_at >= old.reset_at
           /\ new.reset_at # old.reset_at
                 => /\ new.reset_at = now + Window
                    /\ \/ CallOn(lastCall', {"reset"}, key)
                       \/ /\ old.queue_task.st \in {"ready", "sleeping"}
                          /\ new.queue_task.st # old.queue_task.st
           /\ (Len(new.request_queue) < Len(old.request_queue) /\ now < old.reset_at)
                 => new.reset_at = old.reset_at

\* C25: reset_at of a limiter never decreases and changes only when reset
\* runs (bucket.reset, or the reset of the queue task); a step that processes
\* a record while the window is open (now < reset_at) leaves reset_at as it
\* is.
C25_WindowFromFirst == [][C25_Step]_vars

C26_Step ==
    \A key \in DOMAIN rate_limiters[target] :
       LET old == rate_limiters[target][key]
           new == rate_limiters'[target][key]
       IN  (new.remaining_requests # old.remaining_requests \/ new.reset_at # old.reset_at)
           => \/ CallOn(lastCall', {"add_message", "is_rate_limited", "reset"}, key)
              \/ QueueTaskStarts(key)

\* C26: remaining_requests and reset_at of a limiter change only in a call of
\* add_message, is_rate_limited or reset for its key (the queue task that
\* add_message starts counted as part of the call); no step taken for the
\* passing of time alone changes them.
C26_LazyResets == [][C26_Step]_vars

\* C27: when add_message returns, the record it made is consumed (or the
\* quota is used up): the reset of a stale window and the consumption are not
\* left to a later step.
C27_RecordSynchronous ==
    ValidCall("add_message")
      => /\ CallKey \in DOMAIN rate_limiters[target]
         /\ \/ Limiter(CallKey).request_queue = <<>>
            \/ Limiter(CallKey).remaining_requests <= 0

----------------------------------------------------------------------------
(* Properties of the queue task of SafebrowsingClient, checked under SpecSB *)

\* the results of the batch in flight are written to the cache in this step
Stores == Len(client'.answered) > Len(client.answered) /\ client'.task # "dead"

\* a request is sent in this step
Sends == Len(client'.requests) > Len(client.requests)

LastRequest(cl) == cl.requests[Len(cl.requests)]

C28_Sizes ==
    /\ \A k \in 1..Len(client.requests) :
          Len(client.requests[k]) >= 1 /\ Len(client.requests[k]) <= BATCH_SIZE
    /\ client.task = "request" => client.batch # <<>>
    /\ client.task = "get" => client.batch = <<>>

\* the batch sent is what the queue held, up to the batch size, and nothing is
\* left on the queue unless the batch is full
C28_Step ==
    Sends
    => LET sent_now == LastRequest(client') IN
       /\ Len(client'.requests) = Len(client.requests) + 1
       /\ sent_now \o client'.queue = client.queue
       /\ Len(sent_now) < BATCH_SIZE => client'.queue = <<>>
       /\ client'.task = "request"

\* C28: every request the queue task sends carries at least 1 and at most
\* batch_size (5) URLs, and the task does not wait for further URLs once it
\* has one: it sends what the queue holds.
C28_BatchBounds == [][C28_Step]_vars /\ []C28_Sizes

\* six URLs were queued: a full batch of five was sent, then the sixth alone
C28_Witness ==
    /\ Len(client.requests) >= 2
    /\ Len(client.requests[1]) = BATCH_SIZE
    /\ Len(client.requests[2]) = 1

C29_Step ==
    (Sends /\ client.requests # <<>>)
    => /\ Len(client'.answered) = Len(client.requests)
       /\ client'.answered[Len(client.requests)] = LastRequest(client)
       /\ Cached(client'.cache, LastRequest(client))
       /\ client.task = "request" => client.batch = LastRequest(client)

\* C29: at most one request is in flight whatever the number of callers of
\* check: the requests sent exceed the requests answered by at most the one
\* in flight (or the one that failed), and a request is sent only when the
\* results of the one before are in the cache.
C29_OneInFlight ==
    /\ [][C29_Step]_vars
    /\ [](/\ Len(client.requests) <= Len(client.answered) + 1
          /\ client.task = "request" => Len(client.requests) = Len(client.answered) + 1)

\* a second request is in flight while two callers wait
C29_Witness ==
    /\ Len(client.requests) = 2
    /\ client.task = "request"
    /\ Cached(client.cache, client.requests[1])
    /\ Cardinality({c \in CheckIds : checks[c].st = "waiting"}) >= 2

C30_Step ==
    \A c \in CheckIds :
       /\ (checks[c].st = "waiting" /\ checks'[c].st = "woken")
             => /\ Stores
                /\ Cached(client'.cache, client.batch)
       /\ checks[c].st = "woken"
             => \/ checks'[c] = checks[c]
                \/ /\ Cached(client.cache, checks[c].urls)
                   /\ checks'[c].st = "returned"
                   /\ Len(checks'[c].result) = Len(checks[c].urls)
                \/ /\ ~Cached(client.cache, checks[c].urls)
                   /\ checks'[c].st = "waiting"
       /\ (checks[c].st = "waiting" /\ Stores) => checks'[c].st = "woken"

\* C30: no wake-up is lost in check: the event is set only after results were
\* written to the cache, every caller waiting then is woken and tests the
\* cache again, and no caller waits while all its URLs have a cached result.
C30_NoLostWakeup ==
    /\ [][C30_Step]_vars
    /\ [](\A c \in CheckIds :
            checks[c].st = "waiting" => ~Cached(client.cache, checks[c].urls))

\* a caller was woken by a batch that was not its own, waited again, and has
\* now returned
C30_Witness ==
    \E c \in CheckIds :
       /\ checks[c].st = "returned"
       /\ checks[c].waited
       /\ Len(client.answered) >= 2
       /\ \E i \in 1..Len(checks[c].urls) :
             \A j \in 1..Len(client.answered[1]) :
                client.answered[1][j] # checks[c].urls[i]

----------------------------------------------------------------------------
(* Properties of the classifiers, checked under SpecTalk *)

\* task t runs the classifier name in this step
Runs(t, name) ==
    /\ cur = t
    /\ tasks[t].st = "running"
    /\ Checks(tasks[t].ev)[tasks[t].idx] = name
    /\ tasks'[t] # tasks[t]

\* the classifier that task t ran in this step returned True
Passed(t) ==
    /\ tasks'[t].st \in {"running", "done"}
    /\ tasks'[t].finished = Append(tasks[t].finished,
                                   [name |-> Checks(tasks[t].ev)[tasks[t].idx], ok |-> TRUE])

\* the message mentions somebody, and only bots and its author
OnlyBotsOrSelf(msg) ==
    msg.content.bots + msg.content.selfs > 0 /\ msg.content.users = 0

C21_Step ==
    \A t \in Tasks :
       (/\ Runs(t, "find_mention_spam") \/ Runs(t, "limit_mentions")
        /\ OnlyBotsOrSelf(tasks[t].ev))
       => /\ Passed(t)
          /\ rate_limiters'["MENTION"] = rate_limiters["MENTION"]
          /\ message_queue'["MENTION"] = message_queue["MENTION"]
          /\ ready' = ready

\* C21: find_mention_spam and limit_mentions report no offence and record
\* nothing in the mention bucket for a message that mentions only bots and
\* its author, whatever the state of the author's limiter.
C21_BotMentionsIgnored == [][C21_Step]_vars

\* a message that mentions ten bots and its author has passed both
\* classifiers while the author's key was rate limited for mentions
C21_Witness ==
    \E t \in Tasks :
       /\ OnlyBotsOrSelf(tasks[t].ev)
       /\ tasks[t].st = "done"
       /\ \A i \in 1..Len(tasks[t].finished) : tasks[t].finished[i].ok
       /\ IsRateLimited(rate_limiters, "MENTION", GetKey(tasks[t].ev), now)

\* the message of task t is on the list the duplicate bucket keeps for key
Recorded(mq, ev) ==
    /\ GetKey(ev) \in DOMAIN mq["DUPLICATE"]
    /\ \E i \in 1..Len(mq["DUPLICATE"][GetKey(ev)]) : mq["DUPLICATE"][GetKey(ev)][i] = ev.id

\* (all messages of SpecTalk are of one key: the message before has the id
\* before)
C22_Step ==
    \A t \in Tasks :
       (/\ Runs(t, "find_duplicate_spam")
        /\ tasks[t].ev.id > 1
        /\ tasks[t].ev.id - 1 \in DOMAIN msg_cache)
       => (Recorded(message_queue', tasks[t].ev)
             <=> Distance(Strip(msg_cache[tasks[t].ev.id - 1]),
                          Strip(tasks[t].ev.content.text)) < 5)

\* C22: of two consecutive messages of a key the second is recorded in the
\* duplicate bucket if and only if the edit distance of their stripped texts
\* is below 5, whatever the key sent before.
C22_ConsecutiveDistance == [][C22_Step]_vars

----------------------------------------------------------------------------
(* Properties of block_malicious_links, checked under SpecLinks *)

\* the domain of a URL: what follows https:// up to the path, the query, the
\* fragment or the port
DomainEnd(url) ==
    LET stops == {k \in (Len(Https) + 1)..Len(url) : url[k] \in {"/", "?", "#", ":"}}
    IN  IF stops = {} THEN Len(url)
        ELSE (CHOOSE k \in stops : \A j \in stops : k <= j) - 1

DomainOf(url) == SubSeq(url, Len(Https) + 1, DomainEnd(url))

AllowListed(url) == DomainOf(url) \in domain_whitelist

\* C23: no URL whose domain is on the allow list is among the URLs passed to
\* safebrowsing_client.check, and a call whose URLs are all of allow-listed
\* domains neither reaches the lookup nor calls moderate.
C23_AllowListed ==
    /\ \A i \in 1..Len(link.urls) : ~AllowListed(link.urls[i])
    /\ (\A i \in 1..Len(link.matches) : AllowListed(link.matches[i]))
          => link.st \notin {"check", "moderate"}

----------------------------------------------------------------------------
(* Properties of the failures of moderate, checked under SpecMod *)

\* the notice or the timeout of task t fails in this step
ActionFails(t) ==
    /\ tasks[t].st \in {"await_notice", "await_edit"}
    /\ tasks'[t].st = "failed"

C31_Step ==
    /\ \A t \in Tasks :
          /\ tasks[t].st \in {"await_notice", "await_edit"} => tasks[t].increments = 1
          /\ ActionFails(t) => strikes' = strikes
          /\ tasks[t].st = "failed" => tasks'[t] = tasks[t]
    /\ strikes' # strikes
          => \E t \in Tasks :
                /\ tasks[t].st = "await_update"
                /\ tasks'[t].st \in {"await_notice", "await_edit"}
                /\ strikes' = [strikes EXCEPT ![tasks[t].ev.author] = tasks[t].fetched + 1]

\* C31: moderate has stored the incremented strikes when it attempts the
\* notice or the timeout, the step in which either fails leaves the members
\* table as it is, and the call that failed does nothing more: the table
\* changes only when an update returns, to the strikes fetched plus one.
C31_StrikeKept == [][C31_Step]_vars

\* the timeout or the notice of a call failed and the member's strikes are
\* one more than they were
C31_Witness ==
    \E t \in Tasks :
       /\ tasks[t].st = "failed"
       /\ tasks[t].increments = 1
       /\ strikes[tasks[t].ev.author] = strikes0[tasks[t].ev.author] + 1
       /\ \A t2 \in Tasks \ {t} : tasks[t2].st = "idle"

----------------------------------------------------------------------------
(* Properties of the errors raised within AutoMod.check, checked under Spec *)

C32_Step ==
    \A t \in Tasks :
       (tasks[t].st = "await_notice" /\ tasks'[t].st # "await_notice")
          => tasks'[t].st \in {"running", "done"}

\* C32: whether or not the notice is delivered, the call of notice returns
\* to check, which goes on with the next classifier or returns: no error
\* leaves check.
C32_NoticeFailureContained == [][C32_Step]_vars

\* C33: a check that has ended, with or without an error in one of its
\* classifiers, has run every classifier of its tuple.
C33_ErrorsLocal ==
    \A t \in Tasks :
       (tasks[t].st \in {"done", "failed"} /\ ~Skipped(tasks[t].ev))
          => tasks[t].started = Checks(tasks[t].ev)

----------------------------------------------------------------------------
(* Property of the deletions of moderate, checked under SpecMod *)

C34_Step ==
    \A t \in Tasks :
       (tasks[t].st = "await_delete" /\ tasks'[t].st # "await_delete")
          => /\ tasks'[t].st # "failed"
             /\ (tasks[t].queue # NoList /\ tasks[t].queue # <<>>)
                   => tasks'[t].st = "await_delete_messages"

\* C34: when message.delete returns or finds the message gone, moderate
\* raises nothing, and if it was handed queued messages it goes on to
\* delete them.
C34_BestEffortDelete == [][C34_Step]_vars

----------------------------------------------------------------------------
(* Properties of the spam classifiers, checked under SpecTalk *)

C35_Step ==
    \A t \in Tasks :
       Runs(t, "find_duplicate_spam")
          => LET ev == tasks[t].ev
                 queue == GetMessages(message_queue, "DUPLICATE", GetKey(ev))
                 similar == /\ queue # NoList
                            /\ queue[Len(queue)] \in DOMAIN msg_cache
                            /\ Distance(Strip(msg_cache[queue[Len(queue)]]),
                                        Strip(ev.content.text)) < 5
             IN  /\ Recorded(message_queue', ev) => similar
                 /\ ~similar => rate_limiters'["DUPLICATE"] = rate_limiters["DUPLICATE"]

\* C35: find_duplicate_spam records a message in the duplicate bucket only
\* when the bucket tracks a message of the key and the last one tracked is at
\* an edit distance below 5; the first message of a key is not recorded.
C35_OnlySimilarRecorded == [][C35_Step]_vars
\* the message holds what the spam classifier name counts
HasMedia(name, msg) ==
    LET c == msg.content IN
    CASE name = "find_invite_spam" -> c.text # <<>> /\ c.invite # "none"
      [] name = "find_link_spam" -> c.text # <<>> /\ c.url # "none"
      [] name = "find_attach_spam" -> c.attachments > 0
      [] name = "find_mention_spam" -> c.users > 0 /\ c.bots = 0 /\ c.selfs = 0

C40_Step ==
    \A t \in Tasks :
       \A name \in {"find_invite_spam", "find_link_spam", "find_attach_spam",
                     "find_mention_spam"} :
          (Runs(t, name) /\ ~HasMedia(name, tasks[t].ev)) => Passed(t)

\* C40: find_invite_spam, find_link_spam, find_attach_spam and
\* find_mention_spam return True for a message without an invite, a link, an
\* attachment or a counted mention of its own, whatever the limiter of its
\* key holds.
C40_OnlyOwnMedia == [][C40_Step]_vars

----------------------------------------------------------------------------
(* Properties of the queue tasks and of the pending records, checked under   *)
(* SpecRL                                                                    *)

\* the number of tasks created for the limiter of key and not yet started
ReadyTasks(key) == Cardinality({i \in 1..Len(ready) : ready[i] = <<target, key>>})

C37_OneTask ==
    \A key \in DOMAIN rate_limiters[target] :
       /\ Limiter(key).queue_task.st \in {"None", "ready", "sleeping"}
       /\ ReadyTasks(key) = IF Limiter(key).queue_task.st = "ready" THEN 1 ELSE 0

C37_Step ==
    \A key \in DOMAIN rate_limiters[target] :
       LET old == rate_limiters[target][key]
           new == rate_limiters'[target][key]
       IN  /\ (/\ CallOn(lastCall', {"add_message"}, key)
               /\ calls' = calls + 1
               /\ old.queue_task.st \in {"ready", "sleeping"})
                 => /\ new = [old EXCEPT !.request_queue = Append(@, Request)]
                    /\ ready' = ready
           /\ (old.queue_task.st \in {"ready", "sleeping"} /\ new.queue_task.st = "None")
                 => new.request_queue = <<>> \/ new.remaining_requests = 0

\* C37: a limiter has at most one queue task, created and not yet started,
\* or sleeping; add_message on a limiter whose task is created or sleeping
\* only appends a request; and when a task ends the limiter's queue is
\* empty or its remaining_requests is 0.
C37_OneQueueTask == []C37_OneTask /\ [][C37_Step]_vars

\* two records are pending on a limiter whose queue task sleeps
C37_Witness ==
    \E key \in DOMAIN rate_limiters[target] :
       /\ Limiter(key).queue_task.st = "sleeping"
       /\ Len(Limiter(key).request_queue) >= 2
       /\ ready = <<>>

----------------------------------------------------------------------------
(* Property of the records that arrive while a key is limited, checked       *)
(* under SpecPending                                                         *)

C36_Step ==
    \A key \in DOMAIN rate_limiters[target] :
       LET old == rate_limiters[target][key]
           new == rate_limiters'[target][key]
       IN  (old.remaining_requests = 0 /\ now < old.reset_at)
             => /\ new.remaining_requests = 0
                /\ new.reset_at = old.reset_at
                /\ (CallOn(lastCall', {"add_message"}, key) /\ calls' = calls + 1)
                      => new.request_queue = Append(old.request_queue, Request)

\* after the burst of time 0 no record was made, and the window it opened
\* has lapsed
LapsedUntouched == calls = 0 /\ now >= Window

\* C36: a record made while the key is limited (remaining_requests = 0,
\* now < reset_at) is appended to the pending queue, and no step taken while
\* the key is limited changes remaining_requests or reset_at; once the window
\* has lapsed the key is not limited as long as no new record is made.
C36_PendingInert ==
    /\ [][C36_Step]_vars
    /\ [](LapsedUntouched => ~IsRateLimited(rate_limiters, target, BurstKey, now))

----------------------------------------------------------------------------
(* Property of the separation of the limiters, checked under SpecIso         *)

\* what a registry holds for a key: nothing, or one value
Entry(f, key) == IF key \in DOMAIN f THEN <<f[key]>> ELSE <<>>

Untouched(b, key) ==
    /\ Entry(rate_limiters'[b], key) = Entry(rate_limiters[b], key)
    /\ Entry(message_queue'[b], key) = Entry(message_queue[b], key)

C38_Step ==
    lastCall'.op # "none"
      => /\ \A b \in BucketNames, c \in IsoContexts :
               (b # target \/ c # lastCall'.ctx) => Untouched(b, GetKey(c))
         /\ \A b \in BucketNames :
               /\ DOMAIN rate_limiters'[b] \subseteq IsoKeys
               /\ DOMAIN message_queue'[b] \subseteq IsoKeys

\* C38: distinct (guild, author) pairs have distinct keys, and a call of
\* add_message, is_rate_limited or reset for one pair on one
\* bucket leaves the limiter (remaining_requests, reset_at, request_queue,
\* queue_task) and the tracked ids of every other pair, and of every pair in
\* every other bucket, as they were.
C38_Isolated ==
    /\ [](\A c1, c2 \in IsoContexts : c1 # c2 => GetKey(c1) # GetKey(c2))
    /\ [][C38_Step]_vars

\* a reset was called for a key of a bucket in which another key has a
\* pending record, while another bucket holds a used limiter of the same key
C38_Witness ==
    /\ lastCall.op = "reset"
    /\ ~lastCall.raised
    /\ \E key \in DOMAIN rate_limiters[target] \ {GetKey(lastCall.ctx)} :
          rate_limiters[target][key].request_queue # <<>>
    /\ \E b \in Targets \ {target} :
          /\ GetKey(lastCall.ctx) \in DOMAIN rate_limiters[b]
          /\ rate_limiters[b][GetKey(lastCall.ctx)].consumed > 0

----------------------------------------------------------------------------
(* Property of the stored strike counts, checked under SpecStrikes           *)

\* C39: the strike count stored for a member is always one of 0..4, and no
\* step lowers it, however many calls of moderate run and however they
\* interleave at their awaits.
C39_StrikesBounded ==
    /\ [](\A u \in UserIds : strikes[u] \in 0..4)
    /\ [][\A u \in UserIds : strikes'[u] >= strikes[u]]_vars

============================================================================
